---------------------------- MODULE Spec2Model ----------------------------
(***************************************************************************)
(* Model of the rustwhy diagnostic framework: Severity, the report model,  *)
(* the runner (run_module / run_all_modules), the thirteen diagnostic      *)
(* modules and the CLI's run-all pass.                                     *)
(*                                                                         *)
(* Conventions.  A Rust value is a TLA+ record with the fields of the      *)
(* struct.  Option<T> is a sequence: <<>> for None, <<x>> for Some(x).     *)
(* Result<T> is a record [ok, val, err] with val = <<r>> for Ok(r) and     *)
(* err = <<e>> for Err(e).                                                 *)
(* f64 quantities are integers in the unit the code compares them in.      *)
(* Free text built with format!() is represented by the literal part of    *)
(* the format string.  DiagnosticReport.timestamp (the wall clock) and     *)
(* Finding.details are not read by any code path and are left out.         *)
(***************************************************************************)
EXTENDS Integers, Sequences, FiniteSets, TLC

VARIABLES
    report,      \* SpecReport: the DiagnosticReport a module run is building
    recomputes,  \* SpecReport: number of compute_overall_severity() calls made
    modules,     \* runner: the Vec<Arc<dyn DiagnosticModule>> handed to the caller
    caller,      \* runner: which entry point is executing
    pc,          \* runner: position inside the entry point / run_module
    idx,         \* runner: 1-based index of the module the loop is at
    cur,         \* runner: the value run_module is returning
    results,     \* runner: run_all_modules' `results` vector
    ret,         \* runner: the value a direct run_module call returned
    availCalls,  \* runner: per module, number of is_available() calls
    runCalls,    \* runner: per module, number of run() calls
    inFlight,    \* runner: indices of modules whose run() future is pending
    cli,         \* CLI: the parsed flags and the host the process runs on
    reports,     \* CLI: `reports` vector (json) / reports written (terminal)
    stderr,      \* CLI: "Module {} failed" lines, by module name
    exit,        \* CLI: result of run_all_and_output
    modName,     \* SpecModules: name of the module under test
    host,        \* SpecModules: what the module reads from the machine
    config,      \* SpecModules: the ModuleConfig passed to run
    outcome,     \* SpecModules: the Result run returned, or None
    finalized,   \* SpecModules: run called compute_overall_severity() last
    call,        \* SpecPure: the function called and its arguments
    result       \* SpecPure: what the call returned, or None

vars == <<report, recomputes, modules, caller, pc, idx, cur, results, ret,
          availCalls, runCalls, inFlight, cli, reports, stderr, exit, modName,
          host, config, outcome, finalized, call, result>>

reportVars == <<report, recomputes>>
runnerVars == <<modules, caller, pc, idx, cur, results, ret, availCalls,
                runCalls, inFlight>>
cliVars    == <<cli, reports, stderr, exit>>
moduleVars == <<modName, host, config, outcome, finalized>>
pureVars   == <<call, result>>

----------------------------------------------------------------------------
(* Bounds of the model.                                                    *)

MaxFindings == 3
MaxMetrics == 1
MaxRecommendations == 1
MaxRecomputes == 2
MaxModules == 3
\* Longest list of entries, sensors, devices, processes or files on a host.
MaxEntries == 2
\* Most calls of run on one module object.
MaxRuns == 2

----------------------------------------------------------------------------
(* Option and Result.                                                      *)

None == <<>>
Some(x) == <<x>>
Ok(r) == [ok |-> TRUE, val |-> <<r>>, err |-> <<>>]
Err(e) == [ok |-> FALSE, val |-> <<>>, err |-> <<e>>]

----------------------------------------------------------------------------
(* core/severity.rs                                                        *)

Severity == {"Ok", "Info", "Warning", "Critical"}

\* #[derive(PartialOrd, Ord)]: variants compare by declaration order.
Severity_rank(s) ==
    CASE s = "Ok" -> 0
      [] s = "Info" -> 1
      [] s = "Warning" -> 2
      [] s = "Critical" -> 3

\* Mutant of Severity_max: returns the right operand always.
Severity_max_other(self, other) == other

\* Mutant of Severity_max: the comparison is inverted.
Severity_max_min(self, other) ==
    IF Severity_rank(self) <= Severity_rank(other) THEN self ELSE other

Severity_max(self, other) ==
    IF Severity_rank(self) > Severity_rank(other) THEN self ELSE other

----------------------------------------------------------------------------
(* core/report.rs                                                          *)

Finding(severity, category, message) ==
    [severity |-> severity, category |-> category, message |-> message]

Threshold(warning, critical) == [warning |-> warning, critical |-> critical]

\* MetricValue: a tagged union, laid out with the same fields for every tag.
Integer(n) == [kind |-> "Integer", num |-> n, text |-> ""]
Float(n)   == [kind |-> "Float", num |-> n, text |-> ""]
Text(s)    == [kind |-> "Text", num |-> 0, text |-> s]

Metric(name, value, unit, threshold) ==
    [name |-> name, value |-> value, unit |-> unit, threshold |-> threshold]

Recommendation(priority, action) == [priority |-> priority, action |-> action]

\* Mutant of DiagnosticReport_new: the two arguments are taken in the
\* other order.
DiagnosticReport_new_swapped(module, summary) ==
    [module |-> summary, overall_severity |-> "Ok", summary |-> module,
     findings |-> <<>>, recommendations |-> <<>>, metrics |-> <<>>,
     raw_data |-> None]

\* Mutant of DiagnosticReport_new: the report of the previous run is taken
\* up again instead of an empty one.
DiagnosticReport_new_reused(module, summary) ==
    IF outcome # <<>> /\ outcome[Len(outcome)].ok
    THEN [outcome[Len(outcome)].val[1] EXCEPT !.module = module, !.summary = summary]
    ELSE [module |-> module,
          overall_severity |-> "Ok",
          summary |-> summary,
          findings |-> <<>>,
          recommendations |-> <<>>,
          metrics |-> <<>>,
          raw_data |-> None]

DiagnosticReport_new(module, summary) ==
    [module |-> module,
     overall_severity |-> "Ok",
     summary |-> summary,
     findings |-> <<>>,
     recommendations |-> <<>>,
     metrics |-> <<>>,
     raw_data |-> None]

\* findings.iter().map(|f| f.severity).fold(Severity::Ok, Severity::max)
RECURSIVE FoldSeverity(_, _)
FoldSeverity(acc, findings) ==
    IF findings = <<>> THEN acc
    ELSE FoldSeverity(Severity_max(acc, Head(findings).severity), Tail(findings))

\* Mutant of compute_overall_severity: the fold starts from the current
\* overall_severity instead of Severity::Ok.
compute_overall_severity_keep(self) ==
    [self EXCEPT !.overall_severity = FoldSeverity(self.overall_severity, self.findings)]

\* Mutant of compute_overall_severity: the severity of the last finding
\* is taken instead of the fold over all of them.
compute_overall_severity_last(self) ==
    [self EXCEPT !.overall_severity =
        IF self.findings = <<>> THEN "Ok"
        ELSE self.findings[Len(self.findings)].severity]

\* Mutant of compute_overall_severity: the incrementally kept value is
\* trusted and returned as it is.
compute_overall_severity_trusting(self) == self

compute_overall_severity(self) ==
    [self EXCEPT !.overall_severity = FoldSeverity("Ok", self.findings)]

\* Mutant of add_finding: takes the new finding's severity as it is.
add_finding_overwrite(self, finding) ==
    [self EXCEPT !.overall_severity = finding.severity,
                 !.findings = Append(self.findings, finding)]

\* Mutant of add_finding: the finding is pushed, overall_severity is left.
add_finding_push_only(self, finding) ==
    [self EXCEPT !.findings = Append(@, finding)]

\* Mutant of add_finding: findings.insert(0, finding) instead of push.
add_finding_prepend(self, finding) ==
    [self EXCEPT !.overall_severity = Severity_max(self.overall_severity, finding.severity),
                 !.findings = <<finding>> \o self.findings]

add_finding(self, finding) ==
    [self EXCEPT !.overall_severity = Severity_max(self.overall_severity, finding.severity),
                 !.findings = Append(self.findings, finding)]

add_recommendation(self, rec) ==
    [self EXCEPT !.recommendations = Append(self.recommendations, rec)]

\* Mutant of add_metric: a value at or beyond the critical threshold
\* escalates the report.
add_metric_escalating(self, metric) ==
    [self EXCEPT !.metrics = Append(self.metrics, metric),
                 !.overall_severity =
                     IF metric.threshold # None /\ metric.value.num >= metric.threshold[1].critical
                     THEN "Critical" ELSE @]

add_metric(self, metric) ==
    [self EXCEPT !.metrics = Append(self.metrics, metric)]

----------------------------------------------------------------------------
(* Values the variables of the other specifications rest at.               *)

IdleReport == report = DiagnosticReport_new("", "") /\ recomputes = 0

IdleRunner ==
    /\ modules = <<>>
    /\ caller = "none"
    /\ pc = "idle"
    /\ idx = 0
    /\ cur = None
    /\ results = <<>>
    /\ ret = None
    /\ availCalls = <<>>
    /\ runCalls = <<>>
    /\ inFlight = {}

IdleCli ==
    /\ cli = None
    /\ reports = <<>>
    /\ stderr = <<>>
    /\ exit = None

IdleModule ==
    /\ modName = ""
    /\ host = None
    /\ config = None
    /\ outcome = None
    /\ finalized = FALSE

IdlePure == call = None /\ result = None

----------------------------------------------------------------------------
(* SpecReport: a report made by DiagnosticReport::new and the three append *)
(* operations a module's run applies to it (core/report.rs).               *)

ReportModuleNames == {"cpu", "batt"}

FindingInputs == {Finding(s, "process", "m") : s \in Severity}

\* A metric below and one beyond its critical threshold, and one without.
MetricInputs ==
    {Metric("CPU Usage", Float(v), Some("%"), t) :
        v \in {50, 95}, t \in {None, Some(Threshold(70, 90))}}

RecommendationInputs == {Recommendation(p, "a") : p \in {1, 3}}

InitReport ==
    /\ \E m \in ReportModuleNames : report = DiagnosticReport_new(m, "s")
    /\ recomputes = 0
    /\ IdleRunner /\ IdleCli /\ IdleModule /\ IdlePure

Call_add_finding ==
    /\ Len(report.findings) < MaxFindings
    /\ \E f \in FindingInputs : report' = add_finding(report, f)
    /\ UNCHANGED <<recomputes, runnerVars, cliVars, moduleVars, pureVars>>

Call_add_metric ==
    /\ Len(report.metrics) < MaxMetrics
    /\ \E m \in MetricInputs : report' = add_metric(report, m)
    /\ UNCHANGED <<recomputes, runnerVars, cliVars, moduleVars, pureVars>>

Call_add_recommendation ==
    /\ Len(report.recommendations) < MaxRecommendations
    /\ \E r \in RecommendationInputs : report' = add_recommendation(report, r)
    /\ UNCHANGED <<recomputes, runnerVars, cliVars, moduleVars, pureVars>>

\* report.compute_overall_severity(), at any point of the building.
Call_compute_overall_severity ==
    /\ recomputes < MaxRecomputes
    /\ report' = compute_overall_severity(report)
    /\ recomputes' = recomputes + 1
    /\ UNCHANGED <<runnerVars, cliVars, moduleVars, pureVars>>

NextReport ==
    \/ Call_add_finding
    \/ Call_add_metric
    \/ Call_add_recommendation
    \/ Call_compute_overall_severity

SpecReport == InitReport /\ [][NextReport]_vars

----------------------------------------------------------------------------
(* C1: in every state reached from DiagnosticReport::new by add_finding,   *)
(* add_metric and add_recommendation calls, overall_severity equals the    *)
(* fold of Severity::max over the severities of the findings held,         *)
(* starting from Ok.                                                       *)

\* The maximum severity, by rank, over a sequence of findings; Ok if empty.
MaxSeverityOf(findings) ==
    IF findings = <<>> THEN "Ok"
    ELSE CHOOSE s \in {findings[i].severity : i \in DOMAIN findings} :
            \A i \in DOMAIN findings :
                Severity_rank(s) >= Severity_rank(findings[i].severity)

C1_OverallIsFoldMax ==
    /\ report.overall_severity = FoldSeverity("Ok", report.findings)
    /\ report.overall_severity = MaxSeverityOf(report.findings)

\* A report holding findings in non-monotone order plus a metric.
C1_Witness ==
    /\ Len(report.findings) = 3
    /\ report.findings[1].severity = "Info"
    /\ report.findings[2].severity = "Critical"
    /\ report.findings[3].severity = "Warning"
    /\ Len(report.metrics) = 1
    /\ report.overall_severity = "Critical"

----------------------------------------------------------------------------
(* C2: under the append operations overall_severity never decreases; once  *)
(* a Critical finding is held it stays Critical; and new("cpu") followed   *)
(* by add_finding(Warning), add_finding(Info) ends at Warning.             *)

C2_Step ==
    /\ Severity_rank(report'.overall_severity) >= Severity_rank(report.overall_severity)
    /\ (\E i \in DOMAIN report.findings : report.findings[i].severity = "Critical")
          => report'.overall_severity = "Critical"
    /\ ( /\ report.module = "cpu"
         /\ Len(report.findings) = 1
         /\ report.findings[1].severity = "Warning"
         /\ Len(report'.findings) = 2
         /\ report'.findings[2].severity = "Info" )
          => report'.overall_severity = "Warning"

C2_NeverDecreases == [][C2_Step]_vars

C2_Witness ==
    /\ report.module = "cpu"
    /\ Len(report.findings) = 2
    /\ report.findings[1].severity = "Warning"
    /\ report.findings[2].severity = "Info"
    /\ report.overall_severity = "Warning"

----------------------------------------------------------------------------
(* core/traits.rs, core/runner.rs.  A DiagnosticModule trait object is     *)
(* the record of what its methods return on the host it runs on:           *)
(* [name, is_available, run], run being the Result the future resolves to. *)

\* Mutant of UnavailableError: the message does not name the module.
UnavailableError_unnamed(name) == <<"Module ", "", " is not available on this system">>

\* anyhow::bail!("Module {} is not available on this system", module.name())
UnavailableError(name) == <<"Module ", name, " is not available on this system">>

\* Test doubles: any availability, a run that succeeds clean, succeeds with
\* a Warning finding, or fails.
DoubleNames == <<"A", "B", "C", "D", "E">>

DoubleRuns(name) ==
    { Ok(DiagnosticReport_new(name, "clean")),
      Ok(add_finding(DiagnosticReport_new(name, "warn"),
                     Finding("Warning", name, "w"))),
      Err(<<"run failed in ", name>>) }

\* `returns` tells whether the future of run ever resolves; `run` is the
\* value it resolves to.
Doubles(name) ==
    { [name |-> name, is_available |-> a, run |-> r, returns |-> TRUE] :
        a \in BOOLEAN, r \in DoubleRuns(name) }

\* Doubles whose run may never return (the value of a future that never
\* resolves is never read).
LiveDoubles(name) ==
    { [name |-> name, is_available |-> a, run |-> r, returns |-> TRUE] :
        a \in BOOLEAN,
        r \in {Ok(DiagnosticReport_new(name, "clean")), Err(<<"run failed in ", name>>)} }
    \cup { [name |-> name, is_available |-> a,
            run |-> Ok(DiagnosticReport_new(name, "clean")), returns |-> FALSE] :
             a \in BOOLEAN }

LiveDoubleVecs ==
    UNION { { v \in [1..n -> UNION {LiveDoubles(DoubleNames[i]) : i \in 1..n}] :
                \A i \in 1..n : v[i].name = DoubleNames[i] } : n \in 0..MaxModules }

DoubleVecs ==
    UNION { { v \in [1..n -> UNION {Doubles(DoubleNames[i]) : i \in 1..n}] :
                \A i \in 1..n : v[i].name = DoubleNames[i] } : n \in 0..MaxModules }

\* The state a call starts from, for modules `ms` and entry point `c`.
RunnerAt(ms, c, p, i) ==
    /\ modules = ms
    /\ caller = c
    /\ pc = p
    /\ idx = i
    /\ cur = None
    /\ results = <<>>
    /\ ret = None
    /\ availCalls = [k \in 1..Len(ms) |-> 0]
    /\ runCalls = [k \in 1..Len(ms) |-> 0]
    /\ inFlight = {}

\* Mutant of RunModule_is_available: the result of the check is ignored.
RunModule_is_available_ignored ==
    /\ pc = "call"
    /\ availCalls' = [availCalls EXCEPT ![idx] = @ + 1]
    /\ pc' = "run"
    /\ UNCHANGED <<modules, caller, idx, cur, results, ret, runCalls, inFlight,
                   reportVars, cliVars, moduleVars, pureVars>>

\* run_module, line 13: if !module.is_available() { bail!(..) }
RunModule_is_available ==
    /\ pc = "call"
    /\ availCalls' = [availCalls EXCEPT ![idx] = @ + 1]
    /\ IF modules[idx].is_available
       THEN /\ pc' = "run"
            /\ cur' = cur
       ELSE /\ pc' = "return"
            /\ cur' = Some(Err(UnavailableError(modules[idx].name)))
    /\ UNCHANGED <<modules, caller, idx, results, ret, runCalls, inFlight,
                   reportVars, cliVars, moduleVars, pureVars>>

\* Mutant of RunModule_run: the next module is started without awaiting
\* the future of this one.
RunModule_run_spawn ==
    /\ pc = "run"
    /\ runCalls' = [runCalls EXCEPT ![idx] = @ + 1]
    /\ inFlight' = inFlight \cup {idx}
    /\ IF caller # "run_module" /\ idx < Len(modules)
       THEN idx' = idx + 1 /\ pc' = "call"
       ELSE idx' = idx /\ pc' = "await"
    /\ UNCHANGED <<modules, caller, cur, results, ret, availCalls,
                   reportVars, cliVars, moduleVars, pureVars>>

\* run_module, line 16: module.run(config) is called; its future is pending.
RunModule_run ==
    /\ pc = "run"
    /\ runCalls' = [runCalls EXCEPT ![idx] = @ + 1]
    /\ inFlight' = inFlight \cup {idx}
    /\ pc' = "await"
    /\ UNCHANGED <<modules, caller, idx, cur, results, ret, availCalls,
                   reportVars, cliVars, moduleVars, pureVars>>

\* Mutant of RunModule_await: a failure of run is replaced by an empty report.
RunModule_await_swallow ==
    /\ pc = "await"
    /\ cur' = Some(IF modules[idx].run.ok THEN modules[idx].run
                   ELSE Ok(DiagnosticReport_new(modules[idx].name, "")))
    /\ inFlight' = inFlight \ {idx}
    /\ pc' = "return"
    /\ UNCHANGED <<modules, caller, idx, results, ret, availCalls, runCalls,
                   reportVars, cliVars, moduleVars, pureVars>>

\* Mutant of RunModule_await: a run that does not return is given up with
\* a timeout error.
RunModule_await_timeout ==
    /\ pc = "await"
    /\ cur' = Some(IF modules[idx].returns THEN modules[idx].run
                   ELSE Err(<<"Module ", modules[idx].name, " timed out">>))
    /\ inFlight' = inFlight \ {idx}
    /\ pc' = "return"
    /\ UNCHANGED <<modules, caller, idx, results, ret, availCalls, runCalls,
                   reportVars, cliVars, moduleVars, pureVars>>

\* run_module, line 16: .await resolves, if the future of run ever does, and
\* its value is run_module's value.
RunModule_await ==
    /\ pc = "await"
    /\ modules[idx].returns
    /\ cur' = Some(modules[idx].run)
    /\ inFlight' = inFlight \ {idx}
    /\ pc' = "return"
    /\ UNCHANGED <<modules, caller, idx, results, ret, availCalls, runCalls,
                   reportVars, cliVars, moduleVars, pureVars>>

\* A direct caller of run_module (main.rs:39, tests) receives the value.
RunModule_return ==
    /\ pc = "return"
    /\ caller = "run_module"
    /\ ret' = cur
    /\ pc' = "done"
    /\ UNCHANGED <<modules, caller, idx, cur, results, availCalls, runCalls, inFlight,
                   reportVars, cliVars, moduleVars, pureVars>>

\* run_all_modules, lines 24-25: results = Vec::with_capacity(..); for ..
RunAll_enter ==
    /\ pc = "start"
    /\ caller = "run_all_modules"
    /\ results' = <<>>
    /\ IF modules = <<>>
       THEN pc' = "done" /\ idx' = idx
       ELSE pc' = "call" /\ idx' = 1
    /\ UNCHANGED <<modules, caller, cur, ret, availCalls, runCalls, inFlight,
                   reportVars, cliVars, moduleVars, pureVars>>

\* Mutant of RunAll_push: the loop stops at the first Err (as `?` would).
RunAll_push_abort ==
    /\ pc = "return"
    /\ caller = "run_all_modules"
    /\ results' = Append(results, cur[1])
    /\ cur' = None
    /\ IF idx < Len(modules) /\ cur[1].ok
       THEN idx' = idx + 1 /\ pc' = "call"
       ELSE idx' = idx /\ pc' = "done"
    /\ UNCHANGED <<modules, caller, ret, availCalls, runCalls, inFlight,
                   reportVars, cliVars, moduleVars, pureVars>>

\* Mutant of RunAll_push: results.insert(0, ..) instead of push.
RunAll_push_front ==
    /\ pc = "return"
    /\ caller = "run_all_modules"
    /\ results' = <<cur[1]>> \o results
    /\ cur' = None
    /\ IF idx < Len(modules)
       THEN idx' = idx + 1 /\ pc' = "call"
       ELSE idx' = idx /\ pc' = "done"
    /\ UNCHANGED <<modules, caller, ret, availCalls, runCalls, inFlight,
                   reportVars, cliVars, moduleVars, pureVars>>

\* run_all_modules, lines 25-28: results.push(run_module(..).await); next
\* module, or return results.
RunAll_push ==
    /\ pc = "return"
    /\ caller = "run_all_modules"
    /\ results' = Append(results, cur[1])
    /\ cur' = None
    /\ IF idx < Len(modules)
       THEN idx' = idx + 1 /\ pc' = "call"
       ELSE idx' = idx /\ pc' = "done"
    /\ UNCHANGED <<modules, caller, ret, availCalls, runCalls, inFlight,
                   reportVars, cliVars, moduleVars, pureVars>>

----------------------------------------------------------------------------
(* What a module reads from the machine.  A sysfs/procfs attribute file is *)
(* absent, holds text that does not parse as a number, or holds a number.  *)

Absent  == [present |-> FALSE, numeric |-> FALSE, n |-> 0]
Garbage == [present |-> TRUE, numeric |-> FALSE, n |-> 0]
Num(n)  == [present |-> TRUE, numeric |-> TRUE, n |-> n]

\* read_first_line(..) is Ok(Some(s)) and s.trim().parse::<i64>() is Ok
ParsesI64(a) == a.present /\ a.numeric
\* ... and s.trim().parse::<u64>() is Ok
ParsesU64(a) == a.present /\ a.numeric /\ a.n >= 0

\* Sequences over S of length at most n.
SeqUpTo(S, n) == UNION { [1..k -> S] : k \in 0..n }

\* ModuleConfig; extra_args maps each key to None (not in the map) or Some(v).
ModuleConfig(verbose, top_n, extra_args) ==
    [verbose |-> verbose, watch |-> FALSE, interval |-> 2, top_n |-> top_n,
     json_output |-> FALSE, extra_args |-> extra_args]

\* config.extra_args.get(key)
ExtraGet(cfg, key) ==
    IF key \in DOMAIN cfg.extra_args THEN cfg.extra_args[key] ELSE None

\* config.extra_args.get(key).map(|s| s == "true").unwrap_or(default)
ExtraFlag(cfg, key, default) ==
    IF ExtraGet(cfg, key) = None THEN default ELSE ExtraGet(cfg, key)[1] = "true"

----------------------------------------------------------------------------
(* modules/batt.rs                                                         *)

\* type_.to_lowercase().contains("battery")
BattIsBatteryType(t) == t \in {"Battery", "battery"}

\* Lines 47-103, the body of the loop for one power_supply entry.
BattEntry(r, e, cfg) ==
    IF ~BattIsBatteryType(e.type) THEN r
    ELSE
      LET r1 == IF e.status # None
                THEN add_metric(r, Metric("{} status", Text(e.status[1]), None, None))
                ELSE r
          r2 == IF ParsesI64(e.capacity)
                THEN LET m == add_metric(r1, Metric("{} capacity", Integer(e.capacity.n),
                                                    Some("%"), Some(Threshold(20, 10))))
                     IN  IF e.capacity.n < 10
                         THEN add_finding(m, Finding("Warning", "batt", "Battery at {}% - very low"))
                         ELSE m
                ELSE r1
          r3 == IF ExtraFlag(cfg, "detailed", FALSE) /\ ParsesU64(e.energy_now)
                THEN add_metric(r2, Metric("{} energy_now", Integer(e.energy_now.n),
                                           Some("uWh"), None))
                ELSE r2
          r4 == IF ExtraFlag(cfg, "detailed", FALSE) /\ ParsesU64(e.power_now)
                THEN add_metric(r3, Metric("{} power_now", Integer(e.power_now.n),
                                           Some("uW"), None))
                ELSE r3
      IN r4

RECURSIVE BattLoop(_, _, _)
BattLoop(r, entries, cfg) ==
    IF entries = <<>> THEN r
    ELSE BattLoop(BattEntry(r, Head(entries), cfg), Tail(entries), cfg)

\* Mutant of BattModule_run: a host without a battery is reported as a failure.
BattModule_run_err(h, cfg) ==
    IF ~h.power_supply_exists
       \/ ~\E i \in DOMAIN h.entries : BattIsBatteryType(h.entries[i].type)
    THEN Err(<<"no battery">>)
    ELSE Ok(compute_overall_severity(
              BattLoop(DiagnosticReport_new("batt", "Battery diagnostics"), h.entries, cfg)))

BattModule_run(h, cfg) ==
    LET report0 == DiagnosticReport_new("batt", "Battery diagnostics") IN
    IF ~h.power_supply_exists
    THEN Ok(add_finding(report0,
               Finding("Info", "batt", "No power_supply class found (desktop or no battery).")))
    ELSE
      LET looped == BattLoop(report0, h.entries, cfg)
          has_battery == \E i \in DOMAIN h.entries : BattIsBatteryType(h.entries[i].type)
          r1 == IF ~has_battery
                THEN add_finding(looped,
                       Finding("Info", "batt", "No battery device found in /sys/class/power_supply."))
                ELSE IF looped.findings = <<>>
                     THEN [looped EXCEPT !.summary = "Battery status OK."]
                     ELSE looped
          r2 == add_recommendation(r1,
                  Recommendation(3, "Use 'upower -i' or 'tlp-stat' for detailed power info."))
      IN Ok(compute_overall_severity(r2))

----------------------------------------------------------------------------
(* Iterator helpers used by the modules.                                   *)

Min(a, b) == IF a < b THEN a ELSE b

\* iter.take(n)
Take(s, n) == SubSeq(s, 1, Min(n, Len(s)))

\* v.sort_by(|a, b| b.key.cmp(&a.key)): stable, descending by key.
InsertDesc(sorted, x) ==
    LET k == Cardinality({i \in DOMAIN sorted : sorted[i].key >= x.key})
    IN  SubSeq(sorted, 1, k) \o <<x>> \o SubSeq(sorted, k + 1, Len(sorted))

RECURSIVE SortDescFrom(_, _)
SortDescFrom(sorted, rest) ==
    IF rest = <<>> THEN sorted
    ELSE SortDescFrom(InsertDesc(sorted, Head(rest)), Tail(rest))

SortDesc(s) == SortDescFrom(<<>>, s)

\* for f in fs { report.add_finding(f) }
RECURSIVE AddFindings(_, _)
AddFindings(r, fs) ==
    IF fs = <<>> THEN r ELSE AddFindings(add_finding(r, Head(fs)), Tail(fs))

\* for m in ms { report.add_metric(m) }
RECURSIVE AddMetrics(_, _)
AddMetrics(r, ms) ==
    IF ms = <<>> THEN r ELSE AddMetrics(add_metric(r, Head(ms)), Tail(ms))

RECURSIVE SumOf(_)
SumOf(s) == IF s = <<>> THEN 0 ELSE Head(s) + SumOf(Tail(s))

----------------------------------------------------------------------------
(* modules/boot.rs.  h.systemd_analyze: command_exists("systemd-analyze"); *)
(* h.time: the seconds parsed from `systemd-analyze time`, None when the   *)
(* command fails or nothing parses; h.blame: None when the command fails,  *)
(* else the milliseconds of the lines the regex matches.                   *)

BootModule_is_available(h) == h.systemd_analyze

\* Lines 46-73.
BootTime(r, h) ==
    IF h.time = None THEN r
    ELSE LET m == add_metric(r, Metric("Total boot time", Float(h.time[1]),
                                       Some("s"), Some(Threshold(15, 30))))
         IN  IF h.time[1] > 30
             THEN add_finding(m, Finding("Warning", "boot",
                     "Boot took {:.1}s; consider disabling unnecessary services."))
             ELSE m

\* Mutant of BootBlame: the top_n cap is not applied.
BootBlame_uncapped(r, h, cfg) ==
    IF h.blame = None THEN r
    ELSE LET slow == SelectSeq(h.blame[1], LAMBDA ms : ms >= 1000)
             entries == SortDesc([i \in DOMAIN slow |-> [key |-> slow[i]]])
         IN  AddFindings(r, [i \in DOMAIN entries |->
                 Finding(IF entries[i].key > 5000 THEN "Warning" ELSE "Info",
                         "service", "{} took {:.2}s to start")])

\* Lines 76-100.
BootBlame(r, h, cfg) ==
    IF h.blame = None THEN r
    ELSE LET slow == SelectSeq(h.blame[1], LAMBDA ms : ms >= 1000)
             entries == Take(SortDesc([i \in DOMAIN slow |-> [key |-> slow[i]]]), cfg.top_n)
         IN  AddFindings(r, [i \in DOMAIN entries |->
                 Finding(IF entries[i].key > 5000 THEN "Warning" ELSE "Info",
                         "service", "{} took {:.2}s to start")])

BootModule_run(h, cfg) ==
    LET report0 == DiagnosticReport_new("boot", "Boot analysis (systemd)") IN
    IF ~h.systemd_analyze
    THEN Ok(add_finding(report0, Finding("Warning", "boot",
               "systemd-analyze not found; boot analysis requires systemd.")))
    ELSE
      LET r1 == BootBlame(BootTime(report0, h), h, cfg)
          r2 == IF r1.findings = <<>> /\ r1.metrics = <<>>
                THEN [r1 EXCEPT !.summary =
                        "Boot time within normal range; no slow services reported."]
                ELSE IF r1.overall_severity = "Ok"
                     THEN add_recommendation(r1, Recommendation(2,
                            "Review slow services with 'systemd-analyze blame' and disable unneeded ones."))
                     ELSE r1
      IN Ok(compute_overall_severity(r2))

----------------------------------------------------------------------------
(* modules/cpu.rs.  h.total_cpu: mean cpu_usage() in percent;              *)
(* h.processes: cpu_usage() of each process in tenths of a percent.        *)

\* Lines 70-90.
CpuProcesses(r, h, cfg) ==
    LET sorted == SortDesc([i \in DOMAIN h.processes |-> [key |-> h.processes[i]]])
        top_processes == Take(sorted, cfg.top_n)
        shown == SelectSeq(top_processes, LAMBDA p : ~(p.key < 5))
    IN  AddFindings(r, [i \in DOMAIN shown |->
            Finding(IF shown[i].key > 500 THEN "Warning" ELSE "Info",
                    "process", "{} (PID {}) consuming {:.1}% CPU")])

CpuModule_run(h, cfg) ==
    LET report0 == DiagnosticReport_new("cpu",
                      IF h.total_cpu > 80 THEN "High CPU utilization detected"
                      ELSE IF h.total_cpu > 50 THEN "Moderate CPU usage"
                      ELSE "CPU usage within normal range")
        r1 == AddMetrics(report0,
                << Metric("Load Average", Text("{:.2} / {:.2} / {:.2} (1m / 5m / 15m)"), None, None),
                   Metric("CPU Usage", Float(h.total_cpu), Some("%"), Some(Threshold(70, 90))),
                   Metric("CPU Cores", Integer(h.num_cpus), None, None) >>)
        r2 == CpuProcesses(r1, h, cfg)
        r3 == IF h.total_cpu > 80
              THEN add_recommendation(r2, Recommendation(1,
                     "Identify and reduce load from top processes (close tabs, stop heavy tasks)."))
              ELSE r2
    IN Ok(compute_overall_severity(r3))

----------------------------------------------------------------------------
(* modules/mem.rs.  h.meminfo: None when /proc/meminfo cannot be read,     *)
(* else the kB values of its keys (a missing key reads as 0);              *)
(* h.processes: the RSS of each process in MiB.                            *)

\* a.saturating_sub(b)
SaturatingSub(a, b) == IF a > b THEN a - b ELSE 0

\* Lines 96-115.
MemSwap(r, mi, cfg) ==
    IF ExtraFlag(cfg, "swap", TRUE) /\ mi.SwapTotal > 0
    THEN LET swap_used_kb == SaturatingSub(mi.SwapTotal, mi.SwapFree)
             m == add_metric(r, Metric("Swap used", Text("format_bytes"), None, None))
         IN  IF swap_used_kb * 100 > 50 * mi.SwapTotal
             THEN add_finding(m, Finding("Warning", "swap",
                     "High swap usage ({:.0}%); system may be under memory pressure."))
             ELSE m
    ELSE r

\* Lines 126-144.
MemProcesses(r, h, cfg) ==
    LET sorted == SortDesc([i \in DOMAIN h.processes |-> [key |-> h.processes[i]]])
        top == Take(sorted, cfg.top_n)
        shown == SelectSeq(top, LAMBDA p : ~(p.key < 50))
    IN  AddFindings(r, [i \in DOMAIN shown |->
            Finding("Info", "process", "{} (PID {}) uses {}")])

MemModule_run(h, cfg) ==
    LET report0 == DiagnosticReport_new("mem", "Memory analysis") IN
    IF h.meminfo = None
    THEN Ok(add_finding(report0, Finding("Critical", "mem", "Cannot read /proc/meminfo")))
    ELSE
      LET mi == h.meminfo[1]
          mem_used_kb == SaturatingSub(mi.MemTotal, mi.MemAvailable)
          \* usage_pct > x  <=>  mem_used_kb * 100 > x * MemTotal  (0.0 if MemTotal = 0)
          usage_pct == IF mi.MemTotal > 0 THEN (mem_used_kb * 100) \div mi.MemTotal ELSE 0
          above(x) == mi.MemTotal > 0 /\ mem_used_kb * 100 > x * mi.MemTotal
          r1 == AddMetrics(report0,
                  << Metric("Memory total", Text("format_bytes"), None, None),
                     Metric("Memory used", Text("format_bytes"), None, None),
                     Metric("Memory usage", Float(usage_pct), Some("%"), Some(Threshold(80, 95))) >>)
          r2 == MemSwap(r1, mi, cfg)
          r3 == IF above(90)
                THEN add_finding(r2, Finding("Warning", "mem",
                        "Memory usage is very high; OOM risk if load increases."))
                ELSE r2
          r4 == MemProcesses(r3, h, cfg)
          r5 == IF above(85)
                THEN add_recommendation(r4, Recommendation(1,
                       "Identify and reduce memory-heavy processes or add RAM."))
                ELSE r4
      IN Ok(compute_overall_severity(r5))

----------------------------------------------------------------------------
(* modules/disk.rs.  Sizes are in KiB.  h.path_exists: path.exists();      *)
(* h.files: the regular files under the path, each with its size, parent   *)
(* directory, depth below the path and whether a hidden name leads to it.  *)

MiB == 1024
GiB == 1048576

\* utils::parse_size_human on the option strings of the model, in KiB.
parse_size_human(s) ==
    CASE s = "1Mi" -> Some(1 * MiB)
      [] s = "1GiB" -> Some(1 * GiB)
      [] s = "2048Ki" -> Some(2048)
      [] OTHER -> None

\* config.extra_args.get("depth").and_then(|s| s.parse().ok()).unwrap_or(3)
DiskDepth(cfg) ==
    LET d == ExtraGet(cfg, "depth")
    IN  IF d = None THEN 3
        ELSE CASE d[1] = "0" -> 0 [] d[1] = "1" -> 1 [] d[1] = "9" -> 9 [] OTHER -> 3

\* Lines 59-88: the files WalkDir yields.
DiskWalk(h, cfg) ==
    LET include_hidden == ExtraFlag(cfg, "hidden", FALSE)
    IN  SelectSeq(h.files, LAMBDA f :
            /\ f.depth <= Min(DiskDepth(cfg), 5)
            /\ (include_hidden \/ ~f.hidden))

\* Lines 103-111.
DiskLargeFiles(r, walked, cfg) ==
    LET l == ExtraGet(cfg, "large")
        larger_than_bytes == IF l = None THEN None ELSE parse_size_human(l[1])
        large == IF larger_than_bytes = None THEN <<>>
                 ELSE SelectSeq(walked, LAMBDA f : f.size >= larger_than_bytes[1])
        sorted == SortDesc([i \in DOMAIN large |-> [key |-> large[i].size]])
        top == Take(sorted, cfg.top_n)
    IN  AddFindings(r, [i \in DOMAIN top |-> Finding("Info", "file", "{} - {}")])

\* Lines 113-124.
DiskDirectories(r, walked, cfg) ==
    LET dirs == IF DiskDepth(cfg) >= 1 THEN {walked[i].dir : i \in DOMAIN walked} ELSE {}
        size(d) == SumOf([i \in DOMAIN walked |->
                            IF walked[i].dir = d THEN walked[i].size ELSE 0])
        big == {d \in dirs : size(d) > 100 * MiB}
        \* at most 10 directories are looked at, the largest first
        n == IF Cardinality(dirs) <= 10 THEN Cardinality(big)
             ELSE Min(Cardinality(big), 10)
    IN  AddFindings(r, [i \in 1..n |-> Finding("Info", "directory", "{} uses {}")])

DiskModule_run(h, cfg) ==
    LET report0 == DiagnosticReport_new("disk", "Disk space analysis") IN
    IF ~h.path_exists
    THEN Ok(add_finding(report0, Finding("Critical", "disk", "Path does not exist: {}")))
    ELSE
      LET walked == DiskWalk(h, cfg)
          total_size == SumOf([i \in DOMAIN walked |-> walked[i].size])
          r1 == AddMetrics(report0,
                  << Metric("Path analyzed", Text("path"), None, None),
                     Metric("Total size (sampled)", Text("format_bytes"), None, None) >>)
          r2 == DiskLargeFiles(r1, walked, cfg)
          r3 == DiskDirectories(r2, walked, cfg)
          r4 == IF total_size > 50 * GiB
                THEN add_recommendation(r3, Recommendation(2,
                       "Review large directories (e.g. /var/log, caches) and clean old data."))
                ELSE r3
      IN Ok(compute_overall_severity(r4))

----------------------------------------------------------------------------
(* modules/io.rs.  h.diskstats: None when /proc/diskstats cannot be read,  *)
(* else its devices [name, total] (bytes read plus written, in MiB);       *)
(* h.procs: None when /proc cannot be listed, else per process the MiB     *)
(* read plus written, None when /proc/<pid>/io cannot be read.             *)

\* name.starts_with("ram") || name.starts_with("loop")
IoSkippedDevice(name) == name \in {"ram0", "loop0"}

\* name.contains(dev)
IoNameContains(name, dev) ==
    \/ dev = name
    \/ dev = "sd" /\ name \in {"sda", "sdb"}

\* Lines 63-89.
IoDevices(r, h, cfg) ==
    IF h.diskstats = None THEN r
    ELSE LET device_filter == ExtraGet(cfg, "device")
             kept == SelectSeq(h.diskstats[1], LAMBDA d :
                        /\ ~IoSkippedDevice(d.name)
                        /\ (device_filter = None \/ IoNameContains(d.name, device_filter[1]))
                        /\ d.total > 0)
         IN  AddMetrics(r, [i \in 1..(2 * Len(kept)) |->
                 IF i % 2 = 1 THEN Metric("{} read", Text("format_bytes"), None, None)
                 ELSE Metric("{} write", Text("format_bytes"), None, None)])

\* Lines 91-117.
IoProcesses(r, h, cfg) ==
    LET listed == IF h.procs = None THEN <<>> ELSE h.procs[1]
        heavy == SelectSeq(listed, LAMBDA p : p # None /\ p[1] > 10)
        sorted == SortDesc([i \in DOMAIN heavy |-> [key |-> heavy[i][1]]])
        top == Take(sorted, cfg.top_n)
    IN  AddFindings(r, [i \in DOMAIN top |->
            Finding("Info", "process", "{} (PID {}) - read {}, write {}")])

IoModule_run(h, cfg) ==
    LET report0 == DiagnosticReport_new("io", "Disk I/O analysis")
        r1 == IoProcesses(IoDevices(report0, h, cfg), h, cfg)
        r2 == IF r1.findings = <<>> /\ r1.metrics = <<>>
              THEN [r1 EXCEPT !.summary = "No significant disk I/O detected."]
              ELSE add_recommendation(r1, Recommendation(2,
                     "Use iotop or 'pidstat -d' for live I/O monitoring."))
    IN Ok(compute_overall_severity(r2))

----------------------------------------------------------------------------
(* modules/net.rs.  h.ping: None when the ping process cannot be spawned,  *)
(* else [success, latency_ms] (exit status and the parsed time= values);   *)
(* h.getent: "fail", "empty" or "found"; h.host_cmd: `host` succeeds;      *)
(* h.netdev: None when /proc/net/dev cannot be read, else per interface    *)
(* [lo, traffic].                                                          *)

\* Lines 39-91.
NetPing(r, h) ==
    IF h.ping = None
    THEN add_finding(r, Finding("Info", "connectivity",
            "Could not run ping (command not found or error)."))
    ELSE LET latency_ms == h.ping[1].latency_ms IN
         IF latency_ms # <<>>
         THEN LET m == add_metric(r, Metric("Ping latency (avg)",
                                     Float(SumOf(latency_ms) \div Len(latency_ms)),
                                     Some("ms"), Some(Threshold(100, 500))))
              IN  IF SumOf(latency_ms) > 200 * Len(latency_ms)
                  THEN add_finding(m, Finding("Warning", "latency",
                          "High latency to {} ({:.0} ms avg)"))
                  ELSE m
         ELSE IF ~h.ping[1].success
              THEN add_finding(r, Finding("Warning", "connectivity",
                      "Ping to {} failed; host may be unreachable."))
              ELSE r

\* Lines 94-122.
NetDns(r, h) ==
    IF h.getent # "fail"
    THEN IF h.getent = "found"
         THEN add_finding(r, Finding("Ok", "dns", "DNS resolution for {} OK"))
         ELSE r
    ELSE IF h.host_cmd
         THEN add_finding(r, Finding("Ok", "dns", "DNS resolution for {} OK"))
         ELSE add_finding(r, Finding("Info", "dns",
                 "Could not verify DNS (getent/host not available or failed)."))

\* Lines 125-150.
NetInterfaces(r, h) ==
    IF h.netdev = None THEN r
    ELSE LET kept == SelectSeq(h.netdev[1], LAMBDA i : ~i.lo /\ i.traffic)
         IN  AddMetrics(r, [i \in 1..(2 * Len(kept)) |->
                 IF i % 2 = 1 THEN Metric("{} rx", Integer(1), Some("bytes"), None)
                 ELSE Metric("{} tx", Integer(1), Some("bytes"), None)])

NetModule_run(h, cfg) ==
    LET report0 == DiagnosticReport_new("net", "Network diagnostics")
        r1 == add_metric(report0, Metric("Target host", Text("host"), None, None))
        r2 == NetInterfaces(NetDns(NetPing(r1, h), h), h)
        r3 == IF r2.overall_severity = "Ok"
              THEN add_recommendation(r2, Recommendation(3,
                     "For deeper diagnosis use: ip addr, ip route, nmcli, traceroute."))
              ELSE r2
    IN Ok(compute_overall_severity(r3))

----------------------------------------------------------------------------
(* modules/fan.rs.  h.fans: the RPM of each fan*_input that parses.        *)

\* config.extra_args.get("threshold").and_then(|s| s.parse::<f32>().ok())
FanThreshold(cfg) ==
    LET t == ExtraGet(cfg, "threshold")
    IN  IF t = None THEN None
        ELSE CASE t[1] = "10" -> Some(10) [] t[1] = "50" -> Some(50) [] OTHER -> None

FanModule_run(h, cfg) ==
    LET report0 == DiagnosticReport_new("fan", "Fan diagnostics") IN
    IF h.fans = <<>>
    THEN Ok(add_finding(report0, Finding("Info", "fan",
               "No fan sensors found under /sys/class/hwmon.")))
    ELSE
      LET r1 == AddMetrics(report0, [i \in DOMAIN h.fans |->
                   Metric("{} {}", Integer(h.fans[i]), Some("RPM"), None)])
          fast == IF FanThreshold(cfg) = None THEN <<>>
                  ELSE SelectSeq(h.fans, LAMBDA rpm : rpm > FanThreshold(cfg)[1] * 100)
          r2 == AddFindings(r1, [i \in DOMAIN fast |->
                   Finding("Info", "fan", "{} running at {} RPM (above {} threshold)")])
          r3 == IF r2.findings = <<>> /\ h.fans # <<>>
                THEN [r2 EXCEPT !.summary = "Fan speeds within normal range."]
                ELSE r2
      IN Ok(compute_overall_severity(r3))

----------------------------------------------------------------------------
(* modules/temp.rs.  h.thermal: the `temp` file of each thermal zone;      *)
(* h.hwmon: each temp*_input file under /sys/class/hwmon (millidegrees).   *)

\* Rust integer division truncates toward zero.
TruncDiv(a, b) == IF a >= 0 THEN a \div b ELSE -((-a) \div b)

\* read_thermal_zones / read_hwmon_temps: (name, millideg / 1000) per file
\* that parses as i32.
TempReadings(files) ==
    LET ok == SelectSeq(files, ParsesI64)
    IN  [i \in DOMAIN ok |-> TruncDiv(ok[i].n, 1000)]

critical_thresh == 90
warning_thresh == 80

\* Mutant of TempSensor: the bounds are compared with > instead of >=.
TempSensor_strict(r, temp_c, only_critical) ==
    IF only_critical /\ temp_c <= critical_thresh THEN r
    ELSE LET m == add_metric(r, Metric("{}", Integer(temp_c), Some("C"),
                                       Some(Threshold(warning_thresh, critical_thresh))))
         IN  IF temp_c > critical_thresh
             THEN add_finding(m, Finding("Critical", "temp", "{} at {}C - thermal throttling risk"))
             ELSE IF temp_c > warning_thresh
                  THEN add_finding(m, Finding("Warning", "temp", "{} at {}C - high temperature"))
                  ELSE m

\* Lines 98-126, the body of the loop for one reading.
TempSensor(r, temp_c, only_critical) ==
    IF only_critical /\ temp_c < critical_thresh THEN r
    ELSE LET m == add_metric(r, Metric("{}", Integer(temp_c), Some("C"),
                                       Some(Threshold(warning_thresh, critical_thresh))))
         IN  IF temp_c >= critical_thresh
             THEN add_finding(m, Finding("Critical", "temp", "{} at {}C - thermal throttling risk"))
             ELSE IF temp_c >= warning_thresh
                  THEN add_finding(m, Finding("Warning", "temp", "{} at {}C - high temperature"))
                  ELSE m

RECURSIVE TempLoop(_, _, _)
TempLoop(r, temps, only_critical) ==
    IF temps = <<>> THEN r
    ELSE TempLoop(TempSensor(r, Head(temps), only_critical), Tail(temps), only_critical)

TempModule_run(h, cfg) ==
    LET report0 == DiagnosticReport_new("temp", "Temperature analysis")
        only_critical == ExtraFlag(cfg, "critical", FALSE)
        all_temps == TempReadings(h.thermal) \o TempReadings(h.hwmon)
    IN
    IF all_temps = <<>>
    THEN Ok(add_finding(report0, Finding("Info", "temp",
               "No temperature sensors found (/sys/class/thermal, /sys/class/hwmon).")))
    ELSE
      LET r1 == TempLoop(report0, all_temps, only_critical)
          r2 == IF Severity_rank(r1.overall_severity) >= Severity_rank("Warning")
                THEN add_recommendation(r1, Recommendation(1,
                       "Improve cooling: clean fans, check thermal paste, reduce load."))
                ELSE r1
          r3 == IF r2.findings = <<>> /\ all_temps # <<>>
                THEN [r2 EXCEPT !.summary = "Temperatures within normal range."]
                ELSE r2
      IN Ok(compute_overall_severity(r3))

----------------------------------------------------------------------------
(* modules/gpu.rs.  h.drm_exists: /sys/class/drm exists; h.devices: the    *)
(* cards discover_gpus finds, each with its vendor and the GpuStats the    *)
(* vendor's tools and sysfs files yield; h.tool_exists: the monitoring     *)
(* tool of the first card's vendor is installed.                           *)

GpuModule_is_available(h) == h.drm_exists

\* discover_gpus, lines 83-132.
discover_gpus(h) == IF ~h.drm_exists THEN <<>> ELSE h.devices

\* get_nvidia_stats / get_amd_stats / get_intel_stats: every path is Ok(stats).
GpuGetStats(device) == Ok(device.stats)

\* Lines 500-527.
GpuUtilization(r, st, cfg) ==
    IF st.utilization = None THEN r
    ELSE LET m == add_metric(r, Metric("{} - Utilization", Float(st.utilization[1]),
                                       Some("%"), Some(Threshold(80, 95))))
         IN  IF st.utilization[1] > 90
             THEN add_finding(m, Finding("Warning", "utilization", "{} is under high load ({:.1}%)"))
             ELSE IF st.utilization[1] < 5 /\ cfg.verbose
                  THEN add_finding(m, Finding("Info", "utilization", "{} is idle ({:.1}%)"))
                  ELSE m

\* Lines 530-551.
GpuMemory(r, st) ==
    IF st.memory_used = None \/ st.memory_total = None THEN r
    ELSE LET m == add_metric(r, Metric("{} - Memory Used", Text("{} MiB / {} MiB ({:.1}%)"),
                                       None, None))
         IN  IF st.memory_used[1] * 100 > 90 * st.memory_total[1]
             THEN add_finding(m, Finding("Warning", "memory", "{} memory is nearly full ({:.1}%)"))
             ELSE m

\* Lines 554-585.
GpuTemperature(r, st) ==
    IF st.temperature = None THEN r
    ELSE LET m == add_metric(r, Metric("{} - Temperature", Integer(st.temperature[1]),
                                       Some("C"), Some(Threshold(75, 85))))
         IN  IF st.temperature[1] >= 85
             THEN add_finding(m, Finding("Critical", "temperature", "{} is running very hot ({}C)"))
             ELSE IF st.temperature[1] >= 75
                  THEN add_finding(m, Finding("Warning", "temperature", "{} temperature is elevated ({}C)"))
                  ELSE m

\* Lines 588-615.
GpuOtherMetrics(r, st) ==
    LET r1 == IF st.power_usage = None THEN r
              ELSE add_metric(r, Metric("{} - Power Draw", Float(st.power_usage[1]), Some("W"), None))
        r2 == IF st.fan_speed = None THEN r1
              ELSE add_metric(r1, Metric("{} - Fan Speed", Integer(st.fan_speed[1]), Some("RPM"), None))
        r3 == IF st.clock_speed = None THEN r2
              ELSE add_metric(r2, Metric("{} - Clock Speed", Integer(st.clock_speed[1]), Some("MHz"), None))
    IN r3

\* Lines 455-616, the body of the loop for one device.
GpuDevice(r, device, cfg) ==
    IF device.vendor = "Unknown"
    THEN add_finding(r, Finding("Info", "detection", "Unknown GPU vendor for {}"))
    ELSE LET stats == GpuGetStats(device) IN
         IF ~stats.ok
         THEN add_finding(r, Finding("Warning", "stats", "Failed to get stats for {} GPU {}"))
         ELSE LET st == stats.val[1]
                  r1 == IF st.name = None THEN r
                        ELSE add_metric(r, Metric("{} - Name", Text(st.name[1]), None, None))
              IN  GpuOtherMetrics(
                    GpuTemperature(GpuMemory(GpuUtilization(r1, st, cfg), st), st), st)

RECURSIVE GpuLoop(_, _, _)
GpuLoop(r, devices, cfg) ==
    IF devices = <<>> THEN r
    ELSE GpuLoop(GpuDevice(r, Head(devices), cfg), Tail(devices), cfg)

\* findings.iter().any(|f| f.severity >= Severity::Warning)
AnyAtLeastWarning(findings) ==
    \E i \in DOMAIN findings :
        Severity_rank(findings[i].severity) >= Severity_rank("Warning")

\* findings.iter().any(|f| f.category == c)
AnyCategory(findings, c) == \E i \in DOMAIN findings : findings[i].category = c

\* Lines 619-690.
GpuRecommendations(r, h, devices) ==
    IF AnyAtLeastWarning(r.findings)
    THEN LET r1 == IF AnyCategory(r.findings, "utilization")
                   THEN add_recommendation(r, Recommendation(2, "Identify GPU-intensive processes"))
                   ELSE r
             r2 == IF AnyCategory(r.findings, "temperature")
                   THEN add_recommendation(r1, Recommendation(1, "Improve GPU cooling immediately"))
                   ELSE r1
             r3 == IF AnyCategory(r.findings, "memory")
                   THEN add_recommendation(r2, Recommendation(2, "Reduce GPU memory usage"))
                   ELSE r2
         IN r3
    ELSE IF devices # <<>>
         THEN IF h.tool_exists
              THEN add_recommendation(r, Recommendation(3, "Monitor {} GPU in real-time"))
              ELSE add_recommendation(r, Recommendation(3, "Install {} GPU monitoring tools"))
         ELSE r

GpuModule_run(h, cfg) ==
    LET report0 == DiagnosticReport_new("gpu", "GPU diagnostics")
        devices == discover_gpus(h)
    IN
    IF devices = <<>>
    THEN Ok(add_finding(report0, Finding("Info", "detection", "No GPU devices detected")))
    ELSE
      LET r1 == add_metric(report0, Metric("GPU Devices Detected", Integer(Len(devices)), None, None))
          r2 == GpuRecommendations(GpuLoop(r1, devices, cfg), h, devices)
          r3 == [r2 EXCEPT !.summary =
                    IF devices = <<>> THEN "No GPU devices found"
                    ELSE IF AnyAtLeastWarning(r2.findings)
                         THEN "{} GPU(s) detected with issues"
                         ELSE "{} GPU(s) detected and operating normally"]
      IN Ok(compute_overall_severity(r3))

----------------------------------------------------------------------------
(* modules/sleep.rs.  h.systemd_inhibit: the command exists;               *)
(* h.inhibit_lines: None when `systemd-inhibit --list` fails, else its     *)
(* number of non-blank lines; h.wakeup: /sys/power/wakeup_count is         *)
(* "missing", "unreadable" or "read".                                      *)

\* Lines 31-68.
SleepInhibitors(r, h, cfg) ==
    IF ExtraFlag(cfg, "inhibitors", TRUE) /\ h.systemd_inhibit /\ h.inhibit_lines # None
    THEN LET n == h.inhibit_lines[1] IN
         IF n > 1
         THEN LET r1 == add_metric(r, Metric("Active inhibitors", Integer(n), None, None))
                  r2 == AddFindings(r1, [i \in 1..Min(5, n) |->
                           Finding("Info", "inhibit", "Inhibitor: {}")])
              IN  IF n > 3
                  THEN add_recommendation(r2, Recommendation(2,
                         "Review what is blocking sleep: systemd-inhibit --list."))
                  ELSE r2
         ELSE add_finding(r, Finding("Ok", "sleep", "No sleep inhibitors active."))
    ELSE r

SleepModule_run(h, cfg) ==
    LET report0 == DiagnosticReport_new("sleep", "Sleep/suspend diagnostics")
        r1 == SleepInhibitors(report0, h, cfg)
        r2 == IF h.wakeup = "read"
              THEN add_metric(r1, Metric("Wakeup count", Integer(0), None, None))
              ELSE r1
        r3 == IF r2.findings = <<>> /\ r2.metrics = <<>>
              THEN add_finding(r2, Finding("Info", "sleep",
                      "No inhibitor or wakeup data available (systemd-inhibit or /sys/power)."))
              ELSE r2
        r4 == add_recommendation(r3, Recommendation(3,
                 "Check journal for suspend/resume: journalctl -b -u sleep.target."))
    IN Ok(compute_overall_severity(r4))

----------------------------------------------------------------------------
(* modules/usb.rs.  h.lsusb_exists, h.dmesg_exists: the commands exist;    *)
(* h.lsusb: None when lsusb fails, else per non-blank output line whether  *)
(* it contains the device filter's text; h.sysfs: None when                *)
(* /sys/bus/usb/devices is missing, else the number of device entries;     *)
(* h.dmesg: None when dmesg fails, else the number of USB error lines.     *)

\* Lines 33-78.
UsbDevices(r, h, cfg) ==
    IF h.lsusb_exists
    THEN IF h.lsusb = None THEN r
         ELSE LET lines == h.lsusb[1]
                  r1 == add_metric(r, Metric("USB devices (lsusb)", Integer(Len(lines)), None, None))
                  shown == SelectSeq(Take(lines, 15), LAMBDA matches :
                              ExtraGet(cfg, "device") = None \/ matches)
              IN  AddFindings(r1, [i \in DOMAIN shown |-> Finding("Info", "usb", "{line}")])
    ELSE IF h.sysfs = None THEN r
         ELSE add_metric(r, Metric("USB devices (sysfs)", Integer(h.sysfs[1]), None, None))

\* Lines 80-99.
UsbDmesg(r, h, cfg) ==
    IF ExtraFlag(cfg, "dmesg", FALSE) /\ h.dmesg_exists /\ h.dmesg # None
    THEN AddFindings(r, [i \in 1..Min(10, h.dmesg[1]) |-> Finding("Warning", "dmesg", "{line}")])
    ELSE r

UsbModule_run(h, cfg) ==
    LET report0 == DiagnosticReport_new("usb", "USB diagnostics")
        r1 == UsbDmesg(UsbDevices(report0, h, cfg), h, cfg)
        r2 == IF r1.findings = <<>> /\ r1.metrics = <<>>
              THEN add_finding(r1, Finding("Info", "usb",
                      "No USB devices or lsusb/sysfs data available."))
              ELSE r1
        r3 == add_recommendation(r2, Recommendation(3,
                 "Use 'lsusb -t' for tree view; 'dmesg | grep -i usb' for kernel messages."))
    IN Ok(compute_overall_severity(r3))

----------------------------------------------------------------------------
(* modules/mount.rs.  h.mounts: None when /proc/mounts cannot be read,     *)
(* else its lines, each [fields (number of whitespace-separated parts),    *)
(* pseudo (device starts with tmpfs or cgroup), matches (mountpoint        *)
(* contains the filter's text), nfs (fstype is nfs or nfs4), ro (options   *)
(* contain "ro"), short (mountpoint starts with / and has <= 50 bytes)];   *)
(* h.fstab: /etc/fstab was read.                                           *)

\* Lines 50-81: the lines counted.
MountCounted(h, cfg) ==
    SelectSeq(h.mounts[1], LAMBDA l :
        /\ ~(l.fields < 4)
        /\ (ExtraGet(cfg, "mountpoint") = None \/ l.matches))

\* Mutant of MountModule_run: the failure to read /proc/mounts is passed
\* on to the caller as `?` would (the mounts read are not looked into).
MountModule_run_propagating(h, cfg) ==
    IF h.mounts = None
    THEN Err(<<"Cannot read /proc/mounts">>)
    ELSE Ok(compute_overall_severity(DiagnosticReport_new("mount", "Mount diagnostics")))

MountModule_run(h, cfg) ==
    LET report0 == DiagnosticReport_new("mount", "Mount diagnostics")
        check_nfs == ExtraFlag(cfg, "nfs", FALSE)
        show_options == ExtraFlag(cfg, "options", FALSE)
    IN
    IF h.mounts = None
    THEN Ok(add_finding(report0, Finding("Critical", "mount", "Cannot read /proc/mounts")))
    ELSE
      LET counted == MountCounted(h, cfg)
          ro_mounts == SelectSeq(counted, LAMBDA l : l.ro /\ ~l.pseudo)
          nfs_mounts == SelectSeq(counted, LAMBDA l : check_nfs /\ l.nfs)
          listed == SelectSeq(counted, LAMBDA l : show_options /\ l.short)
          r1 == AddMetrics(report0, [i \in DOMAIN listed |->
                   Metric("{mountpoint}", Text("{options}"), None, None)])
          r2 == add_metric(r1, Metric("Mount count", Integer(Len(counted)), None, None))
          r3 == AddFindings(r2, [i \in DOMAIN Take(ro_mounts, 5) |->
                   Finding("Info", "mount", "Read-only: {}")])
          r4 == AddFindings(r3, [i \in DOMAIN Take(nfs_mounts, 5) |->
                   Finding("Info", "nfs", "{} {}")])
          r5 == IF h.fstab
                THEN add_metric(r4, Metric("fstab entries", Integer(0), None, None))
                ELSE r4
          r6 == IF r5.findings = <<>> /\ ~show_options
                THEN [r5 EXCEPT !.summary = "Mounts look normal."]
                ELSE r5
          r7 == add_recommendation(r6, Recommendation(3,
                   "Use 'findmnt' and 'mount' for full mount tree."))
      IN Ok(compute_overall_severity(r7))

----------------------------------------------------------------------------
(* modules/mod.rs: the registry.  A module is named by its struct.         *)

ModuleStructs ==
    {"BootModule", "CpuModule", "MemModule", "DiskModule", "IoModule", "NetModule",
     "FanModule", "TempModule", "GpuModule", "BattModule", "SleepModule",
     "UsbModule", "MountModule"}

\* Mutant of Module_name: the temperature module names itself in full.
Module_name_long(m) ==
    CASE m = "BootModule" -> "boot"
      [] m = "CpuModule" -> "cpu"
      [] m = "MemModule" -> "mem"
      [] m = "DiskModule" -> "disk"
      [] m = "IoModule" -> "io"
      [] m = "NetModule" -> "net"
      [] m = "FanModule" -> "fan"
      [] m = "TempModule" -> "temperature"
      [] m = "GpuModule" -> "gpu"
      [] m = "BattModule" -> "batt"
      [] m = "SleepModule" -> "sleep"
      [] m = "UsbModule" -> "usb"
      [] m = "MountModule" -> "mount"

\* DiagnosticModule::name
Module_name(m) ==
    CASE m = "BootModule" -> "boot"
      [] m = "CpuModule" -> "cpu"
      [] m = "MemModule" -> "mem"
      [] m = "DiskModule" -> "disk"
      [] m = "IoModule" -> "io"
      [] m = "NetModule" -> "net"
      [] m = "FanModule" -> "fan"
      [] m = "TempModule" -> "temp"
      [] m = "GpuModule" -> "gpu"
      [] m = "BattModule" -> "batt"
      [] m = "SleepModule" -> "sleep"
      [] m = "UsbModule" -> "usb"
      [] m = "MountModule" -> "mount"

\* DiagnosticModule::is_available: overridden by boot and gpu, else the
\* trait's default `true`.
Module_is_available(m, h) ==
    CASE m = "BootModule" -> BootModule_is_available(h)
      [] m = "GpuModule" -> GpuModule_is_available(h)
      [] OTHER -> TRUE

\* DiagnosticModule::run
Module_run(m, h, cfg) ==
    CASE m = "BootModule" -> BootModule_run(h, cfg)
      [] m = "CpuModule" -> CpuModule_run(h, cfg)
      [] m = "MemModule" -> MemModule_run(h, cfg)
      [] m = "DiskModule" -> DiskModule_run(h, cfg)
      [] m = "IoModule" -> IoModule_run(h, cfg)
      [] m = "NetModule" -> NetModule_run(h, cfg)
      [] m = "FanModule" -> FanModule_run(h, cfg)
      [] m = "TempModule" -> TempModule_run(h, cfg)
      [] m = "GpuModule" -> GpuModule_run(h, cfg)
      [] m = "BattModule" -> BattModule_run(h, cfg)
      [] m = "SleepModule" -> SleepModule_run(h, cfg)
      [] m = "UsbModule" -> UsbModule_run(h, cfg)
      [] m = "MountModule" -> MountModule_run(h, cfg)

\* Mutant of get_module: the arm of "temp" was copied from "fan".
get_module_copied(name) ==
    CASE name = "boot" -> Some("BootModule")
      [] name = "cpu" -> Some("CpuModule")
      [] name = "mem" -> Some("MemModule")
      [] name = "disk" -> Some("DiskModule")
      [] name = "io" -> Some("IoModule")
      [] name = "net" -> Some("NetModule")
      [] name = "fan" -> Some("FanModule")
      [] name = "temp" -> Some("FanModule")
      [] name = "gpu" -> Some("GpuModule")
      [] name = "batt" -> Some("BattModule")
      [] name = "sleep" -> Some("SleepModule")
      [] name = "usb" -> Some("UsbModule")
      [] name = "mount" -> Some("MountModule")
      [] OTHER -> None

get_module(name) ==
    CASE name = "boot" -> Some("BootModule")
      [] name = "cpu" -> Some("CpuModule")
      [] name = "mem" -> Some("MemModule")
      [] name = "disk" -> Some("DiskModule")
      [] name = "io" -> Some("IoModule")
      [] name = "net" -> Some("NetModule")
      [] name = "fan" -> Some("FanModule")
      [] name = "temp" -> Some("TempModule")
      [] name = "gpu" -> Some("GpuModule")
      [] name = "batt" -> Some("BattModule")
      [] name = "sleep" -> Some("SleepModule")
      [] name = "usb" -> Some("UsbModule")
      [] name = "mount" -> Some("MountModule")
      [] OTHER -> None

\* Mutant of all_modules: gpu is listed before temp.
all_modules_swapped ==
    << "BootModule", "CpuModule", "MemModule", "DiskModule", "IoModule", "NetModule",
       "FanModule", "GpuModule", "TempModule", "BattModule", "SleepModule",
       "UsbModule", "MountModule" >>

all_modules ==
    << "BootModule", "CpuModule", "MemModule", "DiskModule", "IoModule", "NetModule",
       "FanModule", "TempModule", "GpuModule", "BattModule", "SleepModule",
       "UsbModule", "MountModule" >>

----------------------------------------------------------------------------
(* The hosts and configurations each module is run on.                     *)

TopNs == {0, 1, 10}

BattEntryInputs ==
    { [type |-> "Mains", status |-> None, capacity |-> Absent,
       energy_now |-> Absent, power_now |-> Absent] }
    \cup
    { [type |-> "Battery", status |-> st, capacity |-> c, energy_now |-> e, power_now |-> e] :
        st \in {None, Some("Discharging")},
        c \in {Absent, Garbage, Num(9), Num(10), Num(50)},
        e \in {Absent, Num(1000)} }

BattHosts ==
    { [power_supply_exists |-> FALSE, entries |-> <<>>] }
    \cup { [power_supply_exists |-> TRUE, entries |-> es] : es \in SeqUpTo(BattEntryInputs, MaxEntries) }

BootHosts ==
    { [systemd_analyze |-> FALSE, time |-> None, blame |-> None] }
    \cup { [systemd_analyze |-> TRUE, time |-> t, blame |-> b] :
             t \in {None, Some(10), Some(30), Some(31)},
             b \in {None} \cup {Some(ms) : ms \in SeqUpTo({999, 1000, 5000, 5001}, MaxEntries)} }

CpuHosts ==
    { [total_cpu |-> t, num_cpus |-> 4, processes |-> ps] :
        t \in {10, 51, 81, 95}, ps \in SeqUpTo({4, 5, 500, 501}, MaxEntries) }

MemHosts ==
    { [meminfo |-> None, processes |-> <<>>] }
    \cup { [meminfo |-> Some([MemTotal |-> mt, MemAvailable |-> ma, SwapTotal |-> st, SwapFree |-> sf]),
            processes |-> ps] :
             mt \in {0, 100}, ma \in {4, 10, 14, 50}, st \in {0, 100}, sf \in {49, 50},
             ps \in SeqUpTo({49, 50}, MaxEntries) }

DiskFileInputs ==
    { [size |-> 1024, dir |-> "a", depth |-> 1, hidden |-> FALSE],
      [size |-> 200 * MiB, dir |-> "a", depth |-> 1, hidden |-> FALSE],
      [size |-> 60 * GiB, dir |-> "b", depth |-> 2, hidden |-> FALSE],
      [size |-> 200 * MiB, dir |-> "c", depth |-> 1, hidden |-> TRUE],
      [size |-> 2048, dir |-> "", depth |-> 0, hidden |-> FALSE] }

DiskHosts ==
    { [path_exists |-> FALSE, files |-> <<>>] }
    \cup { [path_exists |-> TRUE, files |-> fs] : fs \in SeqUpTo(DiskFileInputs, MaxEntries) }

IoHosts ==
    { [diskstats |-> d, procs |-> p] :
        d \in {None} \cup { Some(ds) : ds \in SeqUpTo(
                  { [name |-> "sda", total |-> 5], [name |-> "sdb", total |-> 0],
                    [name |-> "loop0", total |-> 5] }, MaxEntries) },
        p \in {None} \cup { Some(ps) : ps \in SeqUpTo({None, Some(10), Some(11), Some(20)}, MaxEntries) } }

NetHosts ==
    { [ping |-> p, getent |-> g, host_cmd |-> hc, netdev |-> nd] :
        p \in {None} \cup { Some([success |-> ok, latency_ms |-> l]) :
                               ok \in BOOLEAN, l \in SeqUpTo({200, 201}, MaxEntries) },
        g \in {"fail", "empty", "found"},
        hc \in BOOLEAN,
        nd \in {None, Some(<<[lo |-> TRUE, traffic |-> TRUE], [lo |-> FALSE, traffic |-> TRUE]>>)} }

FanHosts == { [fans |-> fs] : fs \in SeqUpTo({0, 1000, 1001, 6000}, MaxEntries) }

TempHosts ==
    { [thermal |-> t, hwmon |-> hw] :
        t \in SeqUpTo({Garbage, Num(79999), Num(80000), Num(89999), Num(90000)}, MaxEntries),
        hw \in SeqUpTo({Num(-500), Num(95000)}, MaxEntries) }

GpuStatsInputs ==
    { [name |-> None, utilization |-> None, memory_used |-> None, memory_total |-> None,
       temperature |-> None, power_usage |-> None, fan_speed |-> None, clock_speed |-> None],
      [name |-> Some("gpu"), utilization |-> Some(4), memory_used |-> Some(90),
       memory_total |-> Some(100), temperature |-> Some(74), power_usage |-> Some(30),
       fan_speed |-> Some(1200), clock_speed |-> Some(1500)],
      [name |-> Some("gpu"), utilization |-> Some(90), memory_used |-> Some(50),
       memory_total |-> None, temperature |-> Some(75), power_usage |-> None,
       fan_speed |-> None, clock_speed |-> None],
      [name |-> Some("gpu"), utilization |-> Some(91), memory_used |-> Some(91),
       memory_total |-> Some(100), temperature |-> Some(85), power_usage |-> None,
       fan_speed |-> None, clock_speed |-> None] }

GpuDeviceInputs ==
    { [vendor |-> "Unknown", stats |-> CHOOSE st \in GpuStatsInputs : st.name = None] }
    \cup { [vendor |-> v, stats |-> st] : v \in {"NVIDIA", "AMD", "Intel"}, st \in GpuStatsInputs }

GpuHosts ==
    { [drm_exists |-> FALSE, devices |-> <<>>, tool_exists |-> FALSE] }
    \cup { [drm_exists |-> TRUE, devices |-> ds, tool_exists |-> t] :
             ds \in SeqUpTo(GpuDeviceInputs, MaxEntries), t \in BOOLEAN }

SleepHosts ==
    { [systemd_inhibit |-> FALSE, inhibit_lines |-> None, wakeup |-> w] :
        w \in {"missing", "unreadable", "read"} }
    \cup { [systemd_inhibit |-> TRUE, inhibit_lines |-> n, wakeup |-> w] :
             n \in {None, Some(1), Some(2), Some(3), Some(4), Some(6)},
             w \in {"missing", "unreadable", "read"} }

UsbHosts ==
    { [lsusb_exists |-> FALSE, lsusb |-> None, sysfs |-> sy, dmesg_exists |-> de, dmesg |-> d] :
        sy \in {None, Some(0), Some(3)}, de \in BOOLEAN, d \in {None, Some(0), Some(1), Some(11)} }
    \cup { [lsusb_exists |-> TRUE, lsusb |-> l, sysfs |-> Some(3), dmesg_exists |-> de, dmesg |-> d] :
             l \in {None, Some(<<>>), Some(<<TRUE, FALSE>>), Some([i \in 1..16 |-> i % 2 = 0])},
             de \in BOOLEAN, d \in {None, Some(0), Some(1), Some(11)} }

MountLineInputs ==
    { [fields |-> 6, pseudo |-> FALSE, matches |-> TRUE, nfs |-> FALSE, ro |-> FALSE, short |-> TRUE],
      [fields |-> 6, pseudo |-> FALSE, matches |-> FALSE, nfs |-> FALSE, ro |-> TRUE, short |-> FALSE],
      [fields |-> 6, pseudo |-> TRUE, matches |-> TRUE, nfs |-> FALSE, ro |-> TRUE, short |-> TRUE],
      [fields |-> 6, pseudo |-> FALSE, matches |-> TRUE, nfs |-> TRUE, ro |-> FALSE, short |-> TRUE],
      [fields |-> 3, pseudo |-> FALSE, matches |-> TRUE, nfs |-> FALSE, ro |-> TRUE, short |-> TRUE] }

MountHosts ==
    { [mounts |-> None, fstab |-> FALSE] }
    \cup { [mounts |-> Some(ls), fstab |-> f] :
             ls \in SeqUpTo(MountLineInputs, MaxEntries), f \in BOOLEAN }

HostsOf(m) ==
    CASE m = "BootModule" -> BootHosts
      [] m = "CpuModule" -> CpuHosts
      [] m = "MemModule" -> MemHosts
      [] m = "DiskModule" -> DiskHosts
      [] m = "IoModule" -> IoHosts
      [] m = "NetModule" -> NetHosts
      [] m = "FanModule" -> FanHosts
      [] m = "TempModule" -> TempHosts
      [] m = "GpuModule" -> GpuHosts
      [] m = "BattModule" -> BattHosts
      [] m = "SleepModule" -> SleepHosts
      [] m = "UsbModule" -> UsbHosts
      [] m = "MountModule" -> MountHosts

\* The extra_args each subcommand can put in the map (main.rs:62-133) and
\* the map's values the module distinguishes.
ExtraArgsOf(m) ==
    CASE m = "DiskModule" ->
            [large : {None, Some("1Mi"), Some("junk")}, depth : {None, Some("0")},
             hidden : {None, Some("true")}]
      [] m = "IoModule" -> [device : {None, Some("sd")}]
      [] m = "FanModule" -> [threshold : {None, Some("10"), Some("x")}]
      [] m = "TempModule" -> [critical : {None, Some("true"), Some("false")}]
      [] m = "BattModule" -> [detailed : {None, Some("true")}]
      [] m = "SleepModule" -> [inhibitors : {None, Some("false")}]
      [] m = "UsbModule" -> [device : {None, Some("hub")}, dmesg : {None, Some("true")}]
      [] m = "MountModule" ->
            [mountpoint : {None, Some("/home")}, nfs : {None, Some("true")},
             options : {None, Some("true")}]
      [] m = "MemModule" -> [swap : {None, Some("false")}]
      [] OTHER -> {<<>>}

\* The modules that read config.top_n / config.verbose.
ReadsTopN(m) == m \in {"BootModule", "CpuModule", "MemModule", "DiskModule", "IoModule"}
ReadsVerbose(m) == m = "GpuModule"

ConfigsOf(m) ==
    { ModuleConfig(v, n, x) :
        v \in (IF ReadsVerbose(m) THEN BOOLEAN ELSE {FALSE}),
        n \in (IF ReadsTopN(m) THEN TopNs ELSE {10}),
        x \in ExtraArgsOf(m) }

----------------------------------------------------------------------------
(* SpecModules: one module's run, called on a host with a configuration.   *)

InitModules ==
    /\ outcome = None
    /\ finalized = FALSE
    /\ \E m \in ModuleStructs :
         \E h \in HostsOf(m) :
           \E c \in ConfigsOf(m) :
             /\ modName = m
             /\ host = Some(h)
             /\ config = Some(c)
    /\ IdleReport /\ IdleRunner /\ IdleCli /\ IdlePure

\* Whether run's path on host h ends with report.compute_overall_severity()
\* right before Ok(report): the `return Ok(report)` of the early exits
\* (batt.rs:42, boot.rs:42, disk.rs:51, fan.rs:71, gpu.rs:444, mem.rs:53,
\* mount.rs:43, temp.rs:92) comes without it.
Module_recomputes(m, h) ==
    CASE m = "BattModule" -> h.power_supply_exists
      [] m = "BootModule" -> h.systemd_analyze
      [] m = "DiskModule" -> h.path_exists
      [] m = "FanModule" -> h.fans # <<>>
      [] m = "GpuModule" -> discover_gpus(h) # <<>>
      [] m = "MemModule" -> h.meminfo # None
      [] m = "MountModule" -> h.mounts # None
      [] m = "TempModule" -> TempReadings(h.thermal) \o TempReadings(h.hwmon) # <<>>
      [] OTHER -> TRUE

\* let result = module.run(&config).await, on the same module object once
\* more after it returned; `outcome` holds the results in call order.
Call_run ==
    /\ modName # ""
    /\ Len(outcome) < MaxRuns
    /\ outcome' = Append(outcome, Module_run(modName, host[1], config[1]))
    /\ finalized' = Module_recomputes(modName, host[1])
    /\ UNCHANGED <<reportVars, runnerVars, cliVars, pureVars, modName, host, config>>

NextModules == Call_run

SpecModules == InitModules /\ [][NextModules]_vars

----------------------------------------------------------------------------
(* Properties of the modules' runs (SpecModules).                        *)

FindingsOf(res) == IF res.ok THEN res.val[1].findings ELSE <<>>

BattAbsent(h) ==
    \/ ~h.power_supply_exists
    \/ ~\E i \in DOMAIN h.entries : BattIsBatteryType(h.entries[i].type)

\* C8: the battery module, run on a host with no power_supply class or with
\* no battery device in it, returns Ok(Report), never an error; the report
\* carries at least one Info finding and its overall severity is Ok or Info.
C8_BattAbsentIsInfoReport ==
    (modName = "BattModule" /\ outcome # None /\ BattAbsent(host[1]))
        => /\ outcome[1].ok
           /\ \E i \in DOMAIN FindingsOf(outcome[1]) :
                  FindingsOf(outcome[1])[i].severity = "Info"
           /\ outcome[1].val[1].overall_severity \in {"Ok", "Info"}

\* A power_supply class that holds only a mains adapter has been diagnosed.
C8_Witness ==
    /\ modName = "BattModule"
    /\ outcome # None
    /\ host[1].power_supply_exists
    /\ host[1].entries # <<>>
    /\ BattAbsent(host[1])
    /\ outcome[1].ok
    /\ Len(outcome[1].val[1].findings) = 1
    /\ outcome[1].val[1].overall_severity = "Info"

\* The absence conditions of a run: a sensor class, device, path or tool the
\* module looks for is not there.
AbsenceCondition(m, h) ==
    CASE m = "BattModule" -> BattAbsent(h)
      [] m = "BootModule" -> ~h.systemd_analyze
      [] m = "DiskModule" -> ~h.path_exists
      [] m = "FanModule" -> h.fans = <<>>
      [] m = "TempModule" -> h.thermal = <<>> /\ h.hwmon = <<>>
      [] m = "GpuModule" -> h.devices = <<>>
      [] m = "NetModule" -> h.ping = None
      [] m = "SleepModule" -> ~h.systemd_inhibit /\ h.wakeup = "missing"
      [] m = "UsbModule" -> ~h.lsusb_exists /\ h.sysfs = None /\ ~h.dmesg_exists
      [] OTHER -> FALSE

\* The findings by which a report explains an absence.
AbsenceMessages ==
    { "No power_supply class found (desktop or no battery).",
      "No battery device found in /sys/class/power_supply.",
      "systemd-analyze not found; boot analysis requires systemd.",
      "Path does not exist: {}",
      "No fan sensors found under /sys/class/hwmon.",
      "No temperature sensors found (/sys/class/thermal, /sys/class/hwmon).",
      "No GPU devices detected",
      "Could not run ping (command not found or error).",
      "No inhibitor or wakeup data available (systemd-inhibit or /sys/power).",
      "No USB devices or lsusb/sysfs data available." }

AbsenceFindings(res) ==
    SelectSeq(FindingsOf(res), LAMBDA f : f.message \in AbsenceMessages)

\* C9: for every module and every absence condition (sensor absent, device
\* or path not found, tool not installed) the run succeeds with a report
\* whose findings explain the absence at Info or Warning severity, never
\* above Warning.
C9_AbsenceAtMostWarning ==
    (outcome # None /\ AbsenceCondition(modName, host[1]))
        => /\ outcome[1].ok
           /\ AbsenceFindings(outcome[1]) # <<>>
           /\ \A i \in DOMAIN AbsenceFindings(outcome[1]) :
                  AbsenceFindings(outcome[1])[i].severity \in {"Info", "Warning"}

\* The same statement for every module but disk.
C9_AllButDisk == modName # "DiskModule" => C9_AbsenceAtMostWarning

\* The disk module has answered a path that does not exist with a Critical
\* finding.
C9_DiskCritical ==
    /\ modName = "DiskModule"
    /\ outcome # None
    /\ ~host[1].path_exists
    /\ outcome[1].ok
    /\ outcome[1].val[1].overall_severity = "Critical"

----------------------------------------------------------------------------
(* main.rs, run_all_and_output: the `all` subcommand.  cli holds the flags *)
(* it reads and whether standard output accepts what is written to it.     *)

\* Box<dyn DiagnosticModule> for struct m on host section h.
Instance(m, h, cfg) ==
    [name |-> Module_name(m),
     is_available |-> Module_is_available(m, h),
     run |-> Module_run(m, h, cfg),
     returns |-> TRUE]

\* Lines 142-149: the configuration every module of the pass gets.
CliConfig(c) ==
    [ModuleConfig(c.verbose, 10, <<>>) EXCEPT !.json_output = c.json]

\* The machines the pass runs on: for each module, what it finds.
CliHosts ==
    { [BootModule |-> b, CpuModule |-> c, MemModule |-> me, DiskModule |-> d,
       IoModule |-> io, NetModule |-> n, FanModule |-> f, TempModule |-> t,
       GpuModule |-> g, BattModule |-> ba, SleepModule |-> sl, UsbModule |-> u,
       MountModule |-> mo] :
        b \in { [systemd_analyze |-> FALSE, time |-> None, blame |-> None],
                [systemd_analyze |-> TRUE, time |-> Some(31), blame |-> Some(<<5001>>)] },
        c \in { [total_cpu |-> 81, num_cpus |-> 4, processes |-> <<501>>] },
        me \in { [meminfo |-> None, processes |-> <<>>],
                 [meminfo |-> Some([MemTotal |-> 100, MemAvailable |-> 50,
                                    SwapTotal |-> 0, SwapFree |-> 0]),
                  processes |-> <<50>>] },
        d \in { [path_exists |-> TRUE,
                 files |-> <<[size |-> 200 * MiB, dir |-> "a", depth |-> 1, hidden |-> FALSE]>>] },
        io \in { [diskstats |-> None, procs |-> None] },
        n \in { [ping |-> None, getent |-> "fail", host_cmd |-> FALSE, netdev |-> None] },
        f \in { [fans |-> <<>>] },
        t \in { [thermal |-> <<Num(90000)>>, hwmon |-> <<>>] },
        g \in { [drm_exists |-> FALSE, devices |-> <<>>, tool_exists |-> FALSE],
                [drm_exists |-> TRUE, devices |-> <<>>, tool_exists |-> FALSE] },
        ba \in { [power_supply_exists |-> FALSE, entries |-> <<>>] },
        sl \in { [systemd_inhibit |-> FALSE, inhibit_lines |-> None, wakeup |-> "missing"] },
        u \in { [lsusb_exists |-> FALSE, lsusb |-> None, sysfs |-> None,
                 dmesg_exists |-> FALSE, dmesg |-> None] },
        mo \in { [mounts |-> None, fstab |-> FALSE] } }

\* Line 150: let modules = all_modules(), on machine w.
CliModules(w, c) ==
    [i \in DOMAIN all_modules |-> Instance(all_modules[i], w[all_modules[i]], CliConfig(c))]

\* Lines 150-155/166: the pass starts at the first module of the registry.
Cli_enter ==
    /\ pc = "start"
    /\ caller = "run_all_and_output"
    /\ reports' = <<>>
    /\ pc' = "call"
    /\ idx' = 1
    /\ UNCHANGED <<reportVars, pureVars, modules, caller, cur, results, ret, availCalls, runCalls,
                   inFlight, cli, stderr, exit, moduleVars>>

\* Mutant of Cli_match: the failure is propagated with `?` and ends the pass.
Cli_match_abort ==
    /\ pc = "return"
    /\ caller = "run_all_and_output"
    /\ cur' = None
    /\ IF cur[1].ok
       THEN /\ reports' = Append(reports, cur[1].val[1])
            /\ UNCHANGED <<stderr, exit>>
            /\ IF idx < Len(modules)
               THEN idx' = idx + 1 /\ pc' = "call"
               ELSE idx' = idx /\ pc' = "output"
       ELSE /\ exit' = Some(Err(cur[1].err[1]))
            /\ pc' = "exit"
            /\ UNCHANGED <<reports, stderr, idx>>
    /\ UNCHANGED <<reportVars, pureVars, modules, caller, results, ret, availCalls, runCalls,
                   inFlight, cli, moduleVars>>

\* Lines 156-161 and 168-173: match rt.block_on(run_module(..)):
\* Ok(r) => the report is collected (--json) or written (terminal);
\* Err(e) => eprintln!("Module {} failed: {}", module.name(), e).
Cli_match ==
    /\ pc = "return"
    /\ caller = "run_all_and_output"
    /\ cur' = None
    /\ IF cur[1].ok
       THEN reports' = Append(reports, cur[1].val[1]) /\ stderr' = stderr
       ELSE /\ stderr' = Append(stderr, <<"Module ", modules[idx].name, " failed: ",
                                          cur[1].err[1]>>)
            /\ reports' = reports
    /\ IF idx < Len(modules)
       THEN idx' = idx + 1 /\ pc' = "call"
       ELSE idx' = idx /\ pc' = "output"
    /\ UNCHANGED <<reportVars, pureVars, modules, caller, results, ret, availCalls, runCalls,
                   inFlight, cli, exit, moduleVars>>

\* Lines 163-164 and 176-177: writeln!(stdout, ..)?; stdout.flush()?; Ok(())
Cli_output ==
    /\ pc = "output"
    /\ caller = "run_all_and_output"
    /\ exit' = Some(IF cli[1].stdout_ok THEN Ok("()") ELSE Err(<<"io error">>))
    /\ pc' = "exit"
    /\ UNCHANGED <<reportVars, pureVars, modules, caller, idx, cur, results, ret, availCalls, runCalls,
                   inFlight, cli, reports, stderr, moduleVars>>

----------------------------------------------------------------------------
(* main.rs, main: a single-module subcommand.  cli[1].command holds the    *)
(* subcommand's name and the flags command_to_module_config reads.         *)

\* The subcommands with a --watch flag, and gpu, whose flags are not read.
MainCommands ==
    { [name |-> n, watch |-> w, interval |-> i, top |-> 10, extra |-> <<>>] :
        n \in {"cpu", "io"}, w \in BOOLEAN, i \in {1, 2} }
    \cup { [name |-> "fan", watch |-> w, interval |-> i, top |-> 10, extra |-> x] :
             w \in BOOLEAN, i \in {1, 2}, x \in {<<>>, [threshold |-> Some("10")]} }
    \cup { [name |-> "temp", watch |-> w, interval |-> i, top |-> 10,
            extra |-> [critical |-> Some(cr)]] :
             w \in BOOLEAN, i \in {1, 2}, cr \in {"true", "false"} }
    \cup { [name |-> "gpu", watch |-> w, interval |-> 2, top |-> 10, extra |-> <<>>] :
             w \in BOOLEAN }

\* command_to_module_config: (module name, ModuleConfig) of the subcommand.
command_to_module_config(c) ==
    LET base == [ModuleConfig(c.verbose, 10, <<>>) EXCEPT !.json_output = c.json]
        cmd == c.command
    IN  CASE cmd.name = "cpu" ->
               <<"cpu", [base EXCEPT !.watch = cmd.watch, !.top_n = cmd.top,
                                     !.interval = cmd.interval]>>
          [] cmd.name = "io" ->
               <<"io", [base EXCEPT !.watch = cmd.watch, !.top_n = cmd.top,
                                    !.interval = cmd.interval, !.extra_args = cmd.extra]>>
          [] cmd.name \in {"fan", "temp"} ->
               <<cmd.name, [base EXCEPT !.watch = cmd.watch, !.interval = cmd.interval,
                                        !.extra_args = cmd.extra]>>
          [] cmd.name = "gpu" -> <<"gpu", base>>

MainFlags ==
    [command : MainCommands, json : BOOLEAN, verbose : {FALSE}, stdout_ok : BOOLEAN,
     world : CliHosts]

\* Lines 36-38: command_to_module_config(&cli)?, get_module(&name), and the
\* runtime; run_module is about to be called.
Main_get_module ==
    /\ pc = "start"
    /\ caller = "main"
    /\ LET nc == command_to_module_config(cli[1])
           found == get_module(nc[1])
       IN  IF found = None
           THEN /\ exit' = Some(Err(<<"Unknown module: ", nc[1]>>))
                /\ pc' = "exit"
                /\ UNCHANGED <<modules, idx, availCalls, runCalls>>
           ELSE /\ modules' = <<Instance(found[1], cli[1].world[found[1]], nc[2])>>
                /\ idx' = 1
                /\ availCalls' = <<0>>
                /\ runCalls' = <<0>>
                /\ pc' = "call"
                /\ exit' = exit
    /\ UNCHANGED <<reportVars, pureVars, moduleVars, caller, cur, results, ret, inFlight,
                   cli, reports, stderr>>

\* Mutant of Main_output: with --watch the module is run again.
Main_output_watch ==
    /\ pc = "return"
    /\ caller = "main"
    /\ cur' = None
    /\ IF ~cur[1].ok
       THEN exit' = Some(Err(cur[1].err[1])) /\ reports' = reports /\ pc' = "exit"
       ELSE /\ reports' = Append(reports, cur[1].val[1])
            /\ IF command_to_module_config(cli[1])[2].watch
               THEN pc' = "call" /\ exit' = exit
               ELSE /\ pc' = "exit"
                    /\ exit' = Some(IF cli[1].stdout_ok THEN Ok("()") ELSE Err(<<"io error">>))
    /\ UNCHANGED <<reportVars, pureVars, moduleVars, modules, caller, idx, results, ret,
                   availCalls, runCalls, inFlight, cli, stderr>>

\* Lines 39-48: let report = rt.block_on(run_module(..))?; the report is
\* written (json or terminal); stdout.flush()?; Ok(())
Main_output ==
    /\ pc = "return"
    /\ caller = "main"
    /\ cur' = None
    /\ IF ~cur[1].ok
       THEN exit' = Some(Err(cur[1].err[1])) /\ reports' = reports
       ELSE /\ reports' = Append(reports, cur[1].val[1])
            /\ exit' = Some(IF cli[1].stdout_ok THEN Ok("()") ELSE Err(<<"io error">>))
    /\ pc' = "exit"
    /\ UNCHANGED <<reportVars, pureVars, moduleVars, modules, caller, idx, results, ret,
                   availCalls, runCalls, inFlight, cli, stderr>>

----------------------------------------------------------------------------
(* SpecRunner: run_module on one module, run_all_modules on a vector of    *)
(* modules, and the `all` subcommand over the registry.                    *)

CliFlags == [json : BOOLEAN, verbose : BOOLEAN, stdout_ok : BOOLEAN]

InitRunner ==
    /\ IdleReport /\ IdleModule /\ IdlePure
    /\ reports = <<>> /\ stderr = <<>> /\ exit = None
    /\ \/ /\ cli = None
          /\ \E m \in Doubles(DoubleNames[1]) : RunnerAt(<<m>>, "run_module", "call", 1)
       \/ /\ cli = None
          /\ \E ms \in DoubleVecs : RunnerAt(ms, "run_all_modules", "start", 0)
       \/ \E c \in CliFlags :
            \E w \in CliHosts :
              /\ cli = Some(c)
              /\ RunnerAt(CliModules(w, c), "run_all_and_output", "start", 0)
       \/ \E c \in MainFlags :
            /\ cli = Some(c)
            /\ RunnerAt(<<>>, "main", "start", 0)

NextRunner ==
    \/ RunModule_is_available
    \/ RunModule_run
    \/ RunModule_await
    \/ RunModule_return
    \/ RunAll_enter
    \/ RunAll_push
    \/ Cli_enter
    \/ Cli_match
    \/ Cli_output
    \/ Main_get_module
    \/ Main_output

SpecRunner == InitRunner /\ [][NextRunner]_vars

\* run_all_modules alone, over doubles whose run may never return.  The
\* executor drives the one future there is (#[tokio::main], main.rs:14):
\* a step that can be taken is taken, a pending await is not a step.
InitRunAll ==
    /\ IdleReport /\ IdleModule /\ IdlePure /\ IdleCli
    /\ \E ms \in LiveDoubleVecs : RunnerAt(ms, "run_all_modules", "start", 0)

NextRunAll ==
    \/ RunAll_enter
    \/ RunModule_is_available
    \/ RunModule_run
    \/ RunModule_await
    \/ RunAll_push

SpecRunAll == InitRunAll /\ [][NextRunAll]_vars /\ WF_vars(NextRunAll)

Spec == SpecRunner

----------------------------------------------------------------------------
(* Properties of the runner (SpecRunner).                                *)

\* What run_module gives for module m taken alone.
RunOneOf(m) == IF m.is_available THEN m.run ELSE Err(UnavailableError(m.name))

\* The module an outcome is about: the report's module, or the name the
\* error message carries.
OutcomeName(res) == IF res.ok THEN res.val[1].module ELSE res.err[1][2]

\* C3: run_module on a module whose is_available() is false fails at once
\* with the "not available" error, and that module's run is never called:
\* its call counter stays at 0.
C3_UnavailableNeverRuns ==
    /\ \A i \in DOMAIN modules :
          ~modules[i].is_available => (runCalls[i] = 0 /\ i \notin inFlight)
    /\ (pc = "return" /\ ~modules[idx].is_available)
          => cur = Some(Err(UnavailableError(modules[idx].name)))
    /\ (caller = "run_module" /\ pc = "done" /\ ~modules[1].is_available)
          => /\ ret = Some(Err(UnavailableError(modules[1].name)))
             /\ availCalls[1] = 1

C3_Witness ==
    /\ caller = "run_module"
    /\ pc = "done"
    /\ ~modules[1].is_available
    /\ modules[1].run.ok
    /\ ret # None
    /\ ~ret[1].ok
    /\ runCalls[1] = 0

\* C4: run_all_modules is a bulkhead: the result has one element per input
\* module, and element i is what run_module gives for module i alone,
\* whatever the other modules do: Unavailable for an unavailable module,
\* and [Ok(reportA), Err(_), Ok(reportC)] when B's run fails in [A, B, C].
C4_Bulkhead ==
    (caller = "run_all_modules" /\ pc = "done")
        => /\ Len(results) = Len(modules)
           /\ \A i \in DOMAIN modules : results[i] = RunOneOf(modules[i])

C4_Witness ==
    /\ caller = "run_all_modules"
    /\ pc = "done"
    /\ Len(modules) = 3
    /\ \A i \in {1, 3} : modules[i].is_available /\ modules[i].run.ok
    /\ modules[2].is_available /\ ~modules[2].run.ok
    /\ Len(results) = 3
    /\ results[1] = modules[1].run
    /\ ~results[2].ok
    /\ results[3] = modules[3].run

\* C5: run_all_modules preserves the input order: at every moment the
\* outcomes collected so far are those of the first modules of the input,
\* output index i being about input module i.
C5_OrderPreserved ==
    caller = "run_all_modules"
        => /\ Len(results) <= Len(modules)
           /\ \A i \in DOMAIN results : OutcomeName(results[i]) = modules[i].name
           /\ pc = "done" => Len(results) = Len(modules)

C5_Witness ==
    /\ caller = "run_all_modules"
    /\ pc = "done"
    /\ Len(modules) = 3
    /\ ~modules[1].is_available
    /\ modules[2].is_available /\ modules[2].run.ok
    /\ modules[3].is_available /\ ~modules[3].run.ok
    /\ [i \in 1..3 |-> OutcomeName(results[i])] = <<"A", "B", "C">>

\* The number of modules whose outcome the run-all loop has recorded.
Recorded ==
    IF caller = "run_all_and_output" THEN Len(reports) + Len(stderr) ELSE Len(results)

\* C6: in run-all mode (run_all_modules and the `all` subcommand) the
\* executions are sequential: at most one module's run is in progress, and
\* the availability check and the run of module i+1 start only after the
\* outcome of module i has been recorded.
C6_Sequential ==
    /\ Cardinality(inFlight) <= 1
    /\ caller \in {"run_all_modules", "run_all_and_output"}
          => \A j \in DOMAIN modules :
                (availCalls[j] > 0 \/ runCalls[j] > 0 \/ j \in inFlight)
                    => Recorded >= j - 1

C6_Witness ==
    /\ caller = "run_all_modules"
    /\ Len(modules) = 3
    /\ idx = 2
    /\ inFlight = {2}
    /\ runCalls = <<1, 1, 0>>
    /\ availCalls = <<1, 1, 0>>
    /\ Len(results) = 1

\* C7: when the module is available, run_module calls its run exactly once
\* and returns its result unchanged: Ok(report) as that report, a failure
\* as that error.
C7_DelegatesUnchanged ==
    /\ \A i \in DOMAIN modules : runCalls[i] <= 1
    /\ (pc = "return" /\ modules[idx].is_available)
          => (cur = Some(modules[idx].run) /\ runCalls[idx] = 1)
    /\ (caller = "run_module" /\ pc = "done" /\ modules[1].is_available)
          => (ret = Some(modules[1].run) /\ runCalls[1] = 1)

C7_Witness ==
    /\ caller = "run_module"
    /\ pc = "done"
    /\ modules[1].is_available
    /\ ~modules[1].run.ok
    /\ ret = Some(modules[1].run)
    /\ runCalls[1] = 1

RECURSIVE OkReports(_)
\* The reports of the Ok outcomes of run_module over ms, in order.
OkReports(ms) ==
    IF ms = <<>> THEN <<>>
    ELSE (IF RunOneOf(Head(ms)).ok THEN <<RunOneOf(Head(ms)).val[1]>> ELSE <<>>)
            \o OkReports(Tail(ms))

\* C10: in the `all` subcommand a module that is unavailable or fails is
\* reported on its own line and left out of the emitted reports; the pass
\* goes on through every module of the registry, the emitted reports are
\* the Ok outcomes of run_module over all_modules() in registry order, and
\* the command ends with Ok(()) (writing to standard output permitting).
C10_RunAllPass ==
    (caller = "run_all_and_output" /\ pc \in {"output", "exit"})
        => /\ [i \in DOMAIN modules |-> modules[i].name]
                = [i \in DOMAIN all_modules |-> Module_name(all_modules[i])]
           /\ \A i \in DOMAIN modules : availCalls[i] = 1
           /\ \A i \in DOMAIN modules : modules[i].is_available => runCalls[i] = 1
           /\ reports = OkReports(modules)
           /\ Len(stderr) = Len(modules) - Len(reports)
           /\ \A k \in DOMAIN stderr :
                 \E i \in DOMAIN modules :
                    ~RunOneOf(modules[i]).ok /\ stderr[k][2] = modules[i].name
           /\ pc = "exit" => (exit # None /\ (cli[1].stdout_ok => exit[1].ok))

C10_Witness ==
    /\ caller = "run_all_and_output"
    /\ pc = "exit"
    /\ ~modules[1].is_available
    /\ ~modules[9].is_available
    /\ Len(stderr) = 2
    /\ Len(reports) = 11
    /\ reports[1].module = "cpu"
    /\ exit = Some(Ok("()"))

----------------------------------------------------------------------------
\* C11: every module's run finalizes its report by an explicit recompute of
\* overall_severity from the findings immediately before the report is
\* returned, on every path that returns a report.
C11_RecomputedBeforeReturn ==
    (outcome # None /\ outcome[1].ok) => finalized

\* C11 as amended: the path through the whole body of run ends with the
\* explicit recompute; an early exit returns the new report after a single
\* add_finding, without a recompute; on every path the overall_severity
\* returned is the maximum over the findings returned.
C11_ReturnedSeverityIsMax ==
    (outcome # None /\ outcome[1].ok)
        => /\ outcome[1].val[1].overall_severity
                 = MaxSeverityOf(outcome[1].val[1].findings)
           /\ ~finalized
                 => /\ Len(outcome[1].val[1].findings) = 1
                    /\ outcome[1].val[1].metrics = <<>>
                    /\ outcome[1].val[1].recommendations = <<>>

\* The temperature module has left through its early exit.
C11_Witness ==
    /\ modName = "TempModule"
    /\ outcome # None
    /\ outcome[1].ok
    /\ ~finalized
    /\ host[1].thermal # <<>>
    /\ outcome[1].val[1].overall_severity = "Info"

----------------------------------------------------------------------------
(* SpecPure: one call of a function of the core on arguments drawn from    *)
(* the sets below; call = <<[fn, args]>>, result = <<value returned>>.     *)

\* Names and summaries DiagnosticReport::new is called with.
NewModuleInputs == {"", "cpu", "mem", "batt"}
NewSummaryInputs == {"", "cpu", "CPU usage analysis"}

\* Keys get_module is looked up with: the registered ones and others.
RegisteredKeys ==
    {"boot", "cpu", "mem", "disk", "io", "net", "fan", "temp", "gpu", "batt",
     "sleep", "usb", "mount"}
KeyInputs == RegisteredKeys \cup {"", "unknown", "all", "CPU", "CpuModule", "temperature"}

\* Reports whose fields were set by hand (the fields are pub): any findings,
\* any overall_severity.
HandMadeReports ==
    { [DiagnosticReport_new("cpu", "s") EXCEPT !.findings = fs, !.overall_severity = o] :
        fs \in SeqUpTo(FindingInputs, MaxEntries), o \in Severity }

InitPure ==
    /\ IdleReport /\ IdleRunner /\ IdleCli /\ IdleModule
    /\ result = None
    /\ \/ \E a, b, c \in Severity :
            call = Some([fn |-> "Severity::max", args |-> <<a, b, c>>])
       \/ \E r \in HandMadeReports :
            call = Some([fn |-> "compute_overall_severity", args |-> <<r>>])
       \/ \E m \in NewModuleInputs, sm \in NewSummaryInputs :
            call = Some([fn |-> "DiagnosticReport::new", args |-> <<m, sm>>])
       \/ \E k \in KeyInputs :
            call = Some([fn |-> "get_module", args |-> <<k>>])
       \/ call = Some([fn |-> "all_modules", args |-> <<>>])

PureFrame == UNCHANGED <<reportVars, runnerVars, cliVars, moduleVars, call>>

\* a.max(b), b.max(a), a.max(b).max(c), a.max(b.max(c)), a.max(a)
Call_Severity_max ==
    /\ result = None
    /\ call[1].fn = "Severity::max"
    /\ LET a == call[1].args[1]
           b == call[1].args[2]
           c == call[1].args[3]
       IN  result' = Some([ab |-> Severity_max(a, b),
                           ba |-> Severity_max(b, a),
                           ab_c |-> Severity_max(Severity_max(a, b), c),
                           a_bc |-> Severity_max(a, Severity_max(b, c)),
                           aa |-> Severity_max(a, a)])
    /\ PureFrame

\* r.compute_overall_severity(), and once more
Call_recompute ==
    /\ result = None
    /\ call[1].fn = "compute_overall_severity"
    /\ result' = Some([once |-> compute_overall_severity(call[1].args[1]),
                       twice |-> compute_overall_severity(
                                    compute_overall_severity(call[1].args[1]))])
    /\ PureFrame

\* DiagnosticReport::new(module, summary)
Call_new ==
    /\ result = None
    /\ call[1].fn = "DiagnosticReport::new"
    /\ result' = Some(DiagnosticReport_new(call[1].args[1], call[1].args[2]))
    /\ PureFrame

\* get_module(key) and, of the module found, name()
Call_get_module ==
    /\ result = None
    /\ call[1].fn = "get_module"
    /\ LET found == get_module(call[1].args[1])
       IN  result' = Some([module |-> found,
                           name |-> IF found = None THEN None
                                    ELSE Some(Module_name(found[1]))])
    /\ PureFrame

\* all_modules(), twice, with name() of each module returned, and the keys
\* get_module answers.
Call_all_modules ==
    /\ result = None
    /\ call[1].fn = "all_modules"
    /\ LET first == all_modules
           second == all_modules
       IN  result' = Some([first |-> [i \in DOMAIN first |-> Module_name(first[i])],
                           second |-> [i \in DOMAIN second |-> Module_name(second[i])],
                           keys |-> {k \in KeyInputs : get_module(k) # None}])
    /\ PureFrame

NextPure ==
    \/ Call_Severity_max
    \/ Call_recompute
    \/ Call_new
    \/ Call_get_module
    \/ Call_all_modules

SpecPure == InitPure /\ [][NextPure]_vars

Returned(fn) == call # None /\ call[1].fn = fn /\ result # None

\* The declared order of the enum: Ok, Info, Warning, Critical.
DeclaredOrder == <<"Ok", "Info", "Warning", "Critical">>
PositionOf(sev) == CHOOSE i \in DOMAIN DeclaredOrder : DeclaredOrder[i] = sev

\* C12: Severity is totally ordered Ok < Info < Warning < Critical, and
\* max(a, b) returns the operand of higher rank for every pair (a, b), a
\* value equal to both when they are equal.
C12_MaxIsHigherRank ==
    Returned("Severity::max")
        => LET a == call[1].args[1]
               b == call[1].args[2]
               m == result[1].ab
           IN  /\ m \in {a, b}
               /\ PositionOf(m) >= PositionOf(a)
               /\ PositionOf(m) >= PositionOf(b)
               /\ a = b => m = a
               /\ (Severity_rank(a) < Severity_rank(b)) <=> (PositionOf(a) < PositionOf(b))
               /\ (Severity_rank(a) = Severity_rank(b)) <=> (a = b)

C12_Witness ==
    /\ Returned("Severity::max")
    /\ call[1].args[1] = "Critical"
    /\ call[1].args[2] = "Info"
    /\ result[1].ab = "Critical"
    /\ result[1].ba = "Critical"

\* C13: max is commutative, associative and idempotent over the four
\* severities, and the fold of max from Ok over no findings is Ok.
C13_MaxAlgebra ==
    /\ Returned("Severity::max")
          => /\ result[1].ab = result[1].ba
             /\ result[1].ab_c = result[1].a_bc
             /\ result[1].aa = call[1].args[1]
    /\ (Returned("compute_overall_severity") /\ call[1].args[1].findings = <<>>)
          => result[1].once.overall_severity = "Ok"

C13_Witness ==
    /\ Returned("compute_overall_severity")
    /\ call[1].args[1].findings = <<>>
    /\ call[1].args[1].overall_severity = "Critical"
    /\ result[1].once.overall_severity = "Ok"

\* C17: DiagnosticReport::new(module_name, summary) returns a report whose
\* findings, recommendations and metrics are empty, whose raw_data is
\* absent, whose overall_severity is Ok and whose module and summary are
\* the arguments.
C17_NewIsEmpty ==
    Returned("DiagnosticReport::new")
        => /\ result[1].findings = <<>>
           /\ result[1].recommendations = <<>>
           /\ result[1].metrics = <<>>
           /\ result[1].raw_data = None
           /\ result[1].overall_severity = "Ok"
           /\ result[1].module = call[1].args[1]
           /\ result[1].summary = call[1].args[2]

C17_Witness ==
    /\ Returned("DiagnosticReport::new")
    /\ call[1].args = <<"cpu", "CPU usage analysis">>
    /\ result[1].module = "cpu"
    /\ result[1].summary = "CPU usage analysis"

\* C19: get_module(key) yields, for each of the 13 registered keys, a
\* module whose name() is key, and None for every other key.
C19_Lookup ==
    Returned("get_module")
        => IF call[1].args[1] \in RegisteredKeys
           THEN /\ result[1].module # None
                /\ result[1].module[1] \in ModuleStructs
                /\ result[1].name = Some(call[1].args[1])
           ELSE result[1].module = None

C19_Witness ==
    /\ Returned("get_module")
    /\ call[1].args[1] = "temp"
    /\ result[1].module = Some("TempModule")
    /\ result[1].name = Some("temp")

C19_WitnessUnknown ==
    /\ Returned("get_module")
    /\ call[1].args[1] = "unknown"
    /\ result[1].module = None

----------------------------------------------------------------------------
(* Properties of the append and recompute operations (SpecReport).         *)

\* The operand of higher rank, by the declared order.
MoreSevere(a, b) == IF PositionOf(a) >= PositionOf(b) THEN a ELSE b

C14_Step ==
    report'.findings # report.findings
        => /\ Len(report'.findings) = Len(report.findings) + 1
           /\ SubSeq(report'.findings, 1, Len(report.findings)) = report.findings
           /\ report'.findings[Len(report'.findings)] \in FindingInputs
           /\ report'.overall_severity
                 = MoreSevere(report.overall_severity,
                              report'.findings[Len(report'.findings)].severity)
           /\ report'.module = report.module
           /\ report'.summary = report.summary
           /\ report'.recommendations = report.recommendations
           /\ report'.metrics = report.metrics
           /\ report'.raw_data = report.raw_data

\* C14: add_finding(f) appends f as the last element of findings, leaves
\* the earlier findings and their order as they were, sets overall_severity
\* to max(previous overall_severity, f.severity) and changes no other field.
C14_AddFindingAppends == [][C14_Step]_vars

\* Critical then Info have been added to a report that holds a metric.
C14_Witness ==
    /\ Len(report.findings) = 2
    /\ report.findings[1].severity = "Critical"
    /\ report.findings[2].severity = "Info"
    /\ report.overall_severity = "Critical"
    /\ Len(report.metrics) = 1
    /\ Len(report.recommendations) = 1

C15_Step ==
    (report'.metrics # report.metrics \/ report'.recommendations # report.recommendations)
        => /\ report'.findings = report.findings
           /\ report'.overall_severity = report.overall_severity
           /\ report'.module = report.module
           /\ report'.summary = report.summary
           /\ report'.raw_data = report.raw_data
           /\ \/ /\ report'.recommendations = report.recommendations
                 /\ Len(report'.metrics) = Len(report.metrics) + 1
                 /\ SubSeq(report'.metrics, 1, Len(report.metrics)) = report.metrics
              \/ /\ report'.metrics = report.metrics
                 /\ Len(report'.recommendations) = Len(report.recommendations) + 1
                 /\ SubSeq(report'.recommendations, 1, Len(report.recommendations))
                       = report.recommendations

\* C15: add_metric and add_recommendation append to their own sequence
\* only: overall_severity and findings stay as they were for every metric
\* and recommendation, a metric beyond its critical threshold included.
C15_MetricsDoNotEscalate == [][C15_Step]_vars

\* A metric beyond its critical threshold sits in a report that is not
\* Critical.
C15_Witness ==
    /\ Len(report.metrics) = 1
    /\ report.metrics[1].threshold # None
    /\ report.metrics[1].value.num > report.metrics[1].threshold[1].critical
    /\ Len(report.findings) = 1
    /\ report.overall_severity = "Info"

\* C16: the incremental and the recompute paths agree: on a report built
\* by new and any sequence of appends, compute_overall_severity, called
\* once or again, leaves overall_severity (and the report) as it was.
C16_RecomputeChangesNothing ==
    [][recomputes' # recomputes => report' = report]_vars

\* Two recomputes were made on a report whose last finding is not its most
\* severe one.
C16_Witness ==
    /\ recomputes = 2
    /\ Len(report.findings) = 3
    /\ report.findings[1].severity = "Warning"
    /\ report.findings[3].severity = "Ok"
    /\ report.overall_severity = "Warning"

----------------------------------------------------------------------------
\* C18: for each of the 13 modules, every report its run returns has its
\* module field equal to that module's name().
C18_ReportNamesModule ==
    (outcome # None /\ outcome[1].ok)
        => outcome[1].val[1].module = Module_name(modName)

\* The cpu module has returned its report through the whole body of run.
C18_Witness ==
    /\ modName = "CpuModule"
    /\ outcome # None
    /\ outcome[1].ok
    /\ outcome[1].val[1].module = "cpu"
    /\ outcome[1].val[1].metrics # <<>>
    /\ finalized

----------------------------------------------------------------------------
----------------------------------------------------------------------------
\* An error of the Unavailable kind: "Module <name> is not available on
\* this system".
IsUnavailable(e) ==
    /\ Len(e) = 3
    /\ e[1] = "Module "
    /\ e[3] = " is not available on this system"

UnavailableFor(res, m) ==
    /\ ~res.ok
    /\ IsUnavailable(res.err[1])
    /\ res.err[1][2] = m.name

\* C21: the error run_module produces for an unavailable module is of the
\* Unavailable kind and carries the name() of the module that declared
\* itself unavailable.
C21_UnavailableCarriesName ==
    /\ (pc = "return" /\ ~modules[idx].is_available) => UnavailableFor(cur[1], modules[idx])
    /\ (caller = "run_module" /\ pc = "done" /\ ~modules[1].is_available)
          => UnavailableFor(ret[1], modules[1])
    /\ caller = "run_all_modules"
          => \A i \in DOMAIN results :
                ~modules[i].is_available => UnavailableFor(results[i], modules[i])
    /\ caller = "run_all_and_output"
          => \A k \in DOMAIN stderr : IsUnavailable(stderr[k][4]) /\ stderr[k][4][2] = stderr[k][2]

\* The `all` pass on a machine without systemd-analyze and without
\* /sys/class/drm has reported boot and gpu as unavailable.
C21_Witness ==
    /\ caller = "run_all_and_output"
    /\ Len(stderr) = 2
    /\ stderr[1][4] = <<"Module ", "boot", " is not available on this system">>
    /\ stderr[2][4] = <<"Module ", "gpu", " is not available on this system">>

----------------------------------------------------------------------------
\* C22: compute_overall_severity re-derives from scratch: whatever the
\* previous overall_severity and whatever findings hold (put there without
\* add_finding), after the call overall_severity is the maximum severity of
\* the current findings, Ok for none, and nothing else of the report has
\* changed; a stale higher value is lowered.
C22_RecomputeFromScratch ==
    Returned("compute_overall_severity") =>
        LET before == call[1].args[1]
            after == result[1].once
        IN  /\ after.overall_severity = MaxSeverityOf(before.findings)
            /\ after = [before EXCEPT !.overall_severity = after.overall_severity]
            /\ Severity_rank(before.overall_severity) > Severity_rank(MaxSeverityOf(before.findings))
                  => Severity_rank(after.overall_severity) < Severity_rank(before.overall_severity)

\* A report left at Critical whose findings were replaced by an Info and an
\* Ok one is recomputed to Info.
C22_Witness ==
    /\ Returned("compute_overall_severity")
    /\ call[1].args[1].overall_severity = "Critical"
    /\ Len(call[1].args[1].findings) = 2
    /\ call[1].args[1].findings[1].severity = "Info"
    /\ call[1].args[1].findings[2].severity = "Ok"
    /\ result[1].once.overall_severity = "Info"

----------------------------------------------------------------------------
\* The value of a numeric metric lies beyond the warning (critical) bound
\* of its threshold: above it where the bounds rise (warning <= critical),
\* below it where they fall (battery capacity).
BeyondWarning(m) ==
    /\ m.threshold # None
    /\ m.value.kind \in {"Integer", "Float"}
    /\ IF m.threshold[1].warning <= m.threshold[1].critical
       THEN m.value.num > m.threshold[1].warning
       ELSE m.value.num < m.threshold[1].warning

BeyondCritical(m) ==
    /\ m.threshold # None
    /\ m.value.kind \in {"Integer", "Float"}
    /\ IF m.threshold[1].warning <= m.threshold[1].critical
       THEN m.value.num > m.threshold[1].critical
       ELSE m.value.num < m.threshold[1].critical

\* C23: whenever a module attaches a Threshold to a Metric, the module
\* compares the metric's value against the threshold's bounds and emits a
\* Finding when the value is beyond them: a returned report holding a metric
\* beyond its warning bound holds a finding of Warning severity or above.
C23_ThresholdsAreEnforced ==
    (outcome # None /\ outcome[1].ok) =>
        \A i \in DOMAIN outcome[1].val[1].metrics :
            BeyondWarning(outcome[1].val[1].metrics[i])
                => \E j \in DOMAIN outcome[1].val[1].findings :
                      outcome[1].val[1].findings[j].severity \in {"Warning", "Critical"}

\* The cpu module has returned a report with CPU Usage beyond the critical
\* bound of the threshold it attached, no finding, and overall_severity Ok.
C23_CpuUnenforced ==
    /\ modName = "CpuModule"
    /\ outcome # None
    /\ outcome[1].ok
    /\ \E i \in DOMAIN outcome[1].val[1].metrics :
          BeyondCritical(outcome[1].val[1].metrics[i])
    /\ outcome[1].val[1].findings = <<>>
    /\ outcome[1].val[1].overall_severity = "Ok"

----------------------------------------------------------------------------
\* Module i is reached by the loop and its run never returns.
Hangs(i) == modules[i].is_available /\ ~modules[i].returns

Finished == pc = "done" /\ Len(results) = Len(modules)

\* C24: run_all_modules imposes no timeout and blocks only on the module it
\* has just invoked: if every run that is made returns, it eventually
\* returns all N outcomes; if the run of module i never returns, it stays
\* at that await for ever, no module after i is ever started and it never
\* returns.
C24_BlocksOnlyOnCurrent ==
    /\ (\A i \in DOMAIN modules : ~Hangs(i)) => <>Finished
    /\ \A i \in 1..MaxModules :
          (i \in DOMAIN modules /\ Hangs(i) /\ \A k \in 1..(i - 1) : ~Hangs(k))
              => /\ <>[](pc = "await" /\ idx = i /\ Len(results) = i - 1)
                 /\ [](pc # "done")
                 /\ [](\A j \in DOMAIN modules :
                          j > i => (availCalls[j] = 0 /\ runCalls[j] = 0))

\* The run of the second of three modules is pending and never returns; the
\* first outcome is recorded, the third module has not been asked anything.
C24_Witness ==
    /\ caller = "run_all_modules"
    /\ Len(modules) = 3
    /\ pc = "await" /\ idx = 2
    /\ Hangs(2)
    /\ Len(results) = 1
    /\ availCalls[3] = 0

----------------------------------------------------------------------------
\* The items of a report: what a run appends.
ItemsOf(r) == <<r.findings, r.metrics, r.recommendations>>

----------------------------------------------------------------------------
\* The category of the ranked sub-findings of a module: per-process findings
\* of cpu, mem and io, per-service findings of boot, large-file findings of
\* disk.
RankedCategory(m) ==
    CASE m \in {"CpuModule", "MemModule", "IoModule"} -> "process"
      [] m = "BootModule" -> "service"
      [] m = "DiskModule" -> "file"
      [] OTHER -> ""

RankedFindings(m, r) ==
    SelectSeq(r.findings, LAMBDA f : f.category = RankedCategory(m))

\* C26: top_n caps the ranked sub-findings: for every top_n and every host,
\* cpu, mem and io emit at most top_n per-process findings, boot at most
\* top_n per-service findings and disk at most top_n large-file findings
\* (none when top_n is 0).
C26_TopNCaps ==
    \A k \in DOMAIN outcome :
        (outcome[k].ok /\ RankedCategory(modName) # "")
            => Len(RankedFindings(modName, outcome[k].val[1])) <= config[1].top_n

\* boot on a host where two services took a second or more to start, with
\* top_n = 1: one per-service finding, for the slowest.
C26_Witness ==
    /\ modName = "BootModule"
    /\ outcome # None
    /\ host[1].blame = Some(<<1000, 5001>>)
    /\ config[1].top_n = 1
    /\ RankedFindings(modName, outcome[1].val[1])
          = <<Finding("Warning", "service", "{} took {:.2}s to start")>>

\* Each of the five modules has been cut short by top_n = 1 on a host that
\* had two entries to rank.
C26_CapReached ==
    /\ outcome # None
    /\ config[1].top_n = 1
    /\ Len(RankedFindings(modName, outcome[1].val[1])) = 1
    /\ \/ modName = "CpuModule" /\ host[1].processes = <<500, 501>>
       \/ modName = "MemModule" /\ host[1].processes = <<50, 50>>
       \/ modName = "IoModule" /\ host[1].procs = Some(<<Some(11), Some(20)>>)
       \/ modName = "DiskModule" /\ Len(host[1].files) = 2
                                 /\ \A i \in 1..2 : host[1].files[i].size = 60 * GiB

----------------------------------------------------------------------------
HasRecommendation(r, action) ==
    \E i \in DOMAIN r.recommendations : r.recommendations[i].action = action

\* What the branch taken on report.overall_severity shows of the value
\* read: temp.rs:128 (>= Warning), net.rs:152 and boot.rs:104 (== Ok); no
\* finding is appended after the read.
ReadSawMaximum(m, r) ==
    LET seen == MaxSeverityOf(r.findings) IN
    CASE m = "TempModule" ->
            (HasRecommendation(r, "Improve cooling: clean fans, check thermal paste, reduce load.")
                <=> seen \in {"Warning", "Critical"})
      [] m = "NetModule" ->
            (HasRecommendation(r, "For deeper diagnosis use: ip addr, ip route, nmcli, traceroute.")
                <=> seen = "Ok")
      [] m = "BootModule" ->
            (HasRecommendation(r, "Review slow services with 'systemd-analyze blame' and disable unneeded ones.")
                <=> (seen = "Ok" /\ (r.findings # <<>> \/ r.metrics # <<>>)))
      [] OTHER -> TRUE

\* C27: every report returned by any of the 13 modules, on every return
\* path, the early returns without a recompute included, has
\* overall_severity equal to the maximum severity of its findings; and each
\* read of report.overall_severity inside a run before the final recompute
\* (temp, net, boot) sees the maximum severity of the findings appended so
\* far.
C27_SeverityCurrentThroughout ==
    \A k \in DOMAIN outcome :
        outcome[k].ok
            => /\ outcome[k].val[1].overall_severity
                     = FoldSeverity("Ok", outcome[k].val[1].findings)
               /\ Severity_rank(outcome[k].val[1].overall_severity)
                     = Severity_rank(MaxSeverityOf(outcome[k].val[1].findings))
               /\ ReadSawMaximum(modName, outcome[k].val[1])

\* temp has read Critical at line 128, after a Critical and then a Warning
\* finding, and added the cooling recommendation.
C27_Witness ==
    /\ modName = "TempModule"
    /\ outcome # None
    /\ finalized
    /\ Len(outcome[1].val[1].findings) = 2
    /\ outcome[1].val[1].findings[1].severity = "Critical"
    /\ outcome[1].val[1].findings[2].severity = "Warning"
    /\ Len(outcome[1].val[1].recommendations) = 1
    /\ outcome[1].val[1].overall_severity = "Critical"

\* net and boot have read Ok and added their recommendation; boot has read
\* Info and added none.
C27_ReadOk ==
    /\ outcome # None
    /\ \/ modName = "NetModule" /\ outcome[1].val[1].recommendations # <<>>
       \/ modName = "BootModule" /\ outcome[1].val[1].recommendations # <<>>
       \/ /\ modName = "BootModule"
          /\ outcome[1].val[1].overall_severity = "Info"
          /\ outcome[1].val[1].recommendations = <<>>

----------------------------------------------------------------------------
\* The file or path the module cannot do without is not there.
Unreadable(m, h) ==
    CASE m = "MemModule" -> h.meminfo = None
      [] m = "MountModule" -> h.mounts = None
      [] m = "DiskModule" -> ~h.path_exists
      [] OTHER -> FALSE

\* C28: no module's run returns an error: on every host each of the 13 runs
\* returns Ok(report); an unreadable /proc/meminfo (mem), an unreadable
\* /proc/mounts (mount) and a path that does not exist (disk) give a report
\* with one Critical finding and overall_severity Critical; so an Err that
\* run_module gives for a module comes from the availability check.
C28_RunNeverFails ==
    \A k \in DOMAIN outcome :
        /\ outcome[k].ok
        /\ Unreadable(modName, host[1])
              => /\ Len(outcome[k].val[1].findings) = 1
                 /\ outcome[k].val[1].findings[1].severity = "Critical"
                 /\ outcome[k].val[1].overall_severity = "Critical"
        /\ LET inst == Instance(modName, host[1], config[1])
           IN  ~RunOneOf(inst).ok
                  => /\ ~Module_is_available(modName, host[1])
                     /\ IsUnavailable(RunOneOf(inst).err[1])

\* mount has run on a machine whose /proc/mounts cannot be read.
C28_Witness ==
    /\ modName = "MountModule"
    /\ outcome # None
    /\ host[1].mounts = None
    /\ outcome[1].ok
    /\ outcome[1].val[1].overall_severity = "Critical"

----------------------------------------------------------------------------
\* The sensor files of a host that hold an integer, in millidegrees.
SensorValues(h) ==
    LET files == h.thermal \o h.hwmon
        held == SelectSeq(files, LAMBDA f : f.present /\ f.numeric)
    IN  [i \in DOMAIN held |-> held[i].n]

CountWhere(seq, Test(_)) == Len(SelectSeq(seq, Test))

\* C29: for the temp module with a nonempty set of integer sensor readings
\* and no critical-only filter, each sensor yields one metric, a Critical
\* finding iff it reads 90 C or more, a Warning finding iff it reads 80 C or
\* more and less than 90 C, no finding below 80 C; overall_severity is
\* Critical iff some reading is >= 90, else Warning iff some is >= 80, else
\* Ok, and the cooling recommendation is added iff overall_severity is
\* Warning or Critical.  With the critical-only filter a reading below 90 C
\* yields neither a metric nor a finding.
C29_TempClassification ==
    (modName = "TempModule" /\ outcome # None /\ SensorValues(host[1]) # <<>>) =>
        LET vals == SensorValues(host[1])
            r == outcome[Len(outcome)].val[1]
            hot == CountWhere(vals, LAMBDA n : n >= 90000)
            warm == CountWhere(vals, LAMBDA n : n >= 80000 /\ n < 90000)
            crit == CountWhere(r.findings, LAMBDA f : f.severity = "Critical")
            warn == CountWhere(r.findings, LAMBDA f : f.severity = "Warning")
            expected == IF hot > 0 THEN "Critical"
                        ELSE IF warm > 0 THEN "Warning" ELSE "Ok"
        IN  IF ExtraGet(config[1], "critical") = Some("true")
            THEN /\ Len(r.metrics) = hot
                 /\ Len(r.findings) = hot
                 /\ crit = hot
            ELSE /\ Len(r.metrics) = Len(vals)
                 /\ crit = hot
                 /\ warn = warm
                 /\ Len(r.findings) = hot + warm
                 /\ r.overall_severity = expected
                 /\ (r.recommendations # <<>>) <=> (expected \in {"Warning", "Critical"})

\* Readings of exactly 80 C and exactly 90 C, no filter: two metrics, a
\* Warning and a Critical finding, the recommendation.
C29_Witness ==
    /\ modName = "TempModule"
    /\ outcome # None
    /\ ExtraGet(config[1], "critical") = None
    /\ SensorValues(host[1]) = <<80000, 90000>>
    /\ Len(outcome[1].val[1].metrics) = 2
    /\ outcome[1].val[1].findings[1].severity = "Warning"
    /\ outcome[1].val[1].findings[2].severity = "Critical"
    /\ Len(outcome[1].val[1].recommendations) = 1

\* With the filter, a reading of 89 C beside one of 95 C has left one
\* metric and one finding.
C29_Filtered ==
    /\ modName = "TempModule"
    /\ outcome # None
    /\ ExtraGet(config[1], "critical") = Some("true")
    /\ SensorValues(host[1]) = <<89999, 95000>>
    /\ Len(outcome[1].val[1].metrics) = 1
    /\ Len(outcome[1].val[1].findings) = 1

----------------------------------------------------------------------------
\* C30: all_modules() returns the same fixed sequence on every call: the 13
\* modules boot, cpu, mem, disk, io, net, fan, temp, gpu, batt, sleep, usb,
\* mount in that order, each exactly once, and the set of their names is the
\* set of keys for which get_module returns a module.
C30_FixedRegistry ==
    Returned("all_modules") =>
        LET names == result[1].first IN
        /\ names = <<"boot", "cpu", "mem", "disk", "io", "net", "fan", "temp",
                     "gpu", "batt", "sleep", "usb", "mount">>
        /\ result[1].second = names
        /\ Len(names) = 13
        /\ \A i, j \in DOMAIN names : names[i] = names[j] => i = j
        /\ {names[i] : i \in DOMAIN names} = result[1].keys

\* all_modules has been called: temp is the eighth module, gpu the ninth,
\* and get_module knows thirteen keys.
C30_Witness ==
    /\ Returned("all_modules")
    /\ result[1].first[8] = "temp"
    /\ result[1].first[9] = "gpu"
    /\ Cardinality(result[1].keys) = 13

=============================================================================
